---- MODULE Spec2Model ----
(***************************************************************************)
(* The dispatch subsystem of edi-thread-server.py: the /dispatch and       *)
(* /tasks/<id>/cancel request handlers (one thread per request, as served  *)
(* by ThreadingHTTPServer), the supervisor thread run_dispatch_task, the   *)
(* child process it supervises, the thread files and the TASKS registry.   *)
(* One action is one atomic step of one thread: a critical section of      *)
(* TASKS_LOCK or THREAD_LOCK, or one operation on the child process,       *)
(* together with the thread-local code around it.  The /ask handler, the   *)
(* callback of a dispatch, the webhook handler and the pure functions of   *)
(* the server (authentication, the task listing, the functions of thread   *)
(* entries, the validation of thread ids, the body readers) are modelled   *)
(* beside it and checked under specifications of their own.                *)
(***************************************************************************)
EXTENDS Integers, Sequences, FiniteSets, TLC

\* ---------------------------------------------------------------- bounds
MaxDispatch == 2        \* /dispatch requests the clients send
MaxCancel == 2          \* /tasks/<id>/cancel requests the clients send
MaxRequests == 3        \* requests of both kinds together

MaxAsk == 1             \* /ask requests the clients send
MaxSkew == 302          \* timestamps lie within Now - MaxSkew .. Now + MaxSkew
MaxListed == 3          \* TaskRecords in a registry handed to the listing
MaxEntries == 4         \* entries of a thread handed to a function of entries
MaxTurnsArg == 3        \* max_turns lies within -1 .. MaxTurnsArg
MaxIdLen == 3           \* characters of a threadId handed to the validation
MaxChunks == 3          \* chunk-size lines of a chunked request body

DispatchIds == 1..MaxDispatch
AskIds == 1..MaxAsk
CancelIds == 1..MaxCancel
\* task_id = str(uuid.uuid4()) is unique per accepted request: the task of
\* request r is named r.
TaskIds == DispatchIds

\* ------------------------------------------------------------- constants
Agents == {"codex", "claude", "gemini"}
EDI == "edi"
MIXED == "__mixed__"
NoAgent == "None"
\* Python's None for an Optional[int] exit code: outside the range of
\* Popen.returncode (-64..255).
NoCode == 256
SIGTERM == 15
SIGKILL == 9
DISPATCH_EARLY_CHECK_SECONDS == 5
TerminalStatus == {"completed", "failed", "canceled"}
AUTH_TIMESTAMP_TOLERANCE == 300
MAX_REQUEST_SIZE == 1024 * 1024
POLL_INTERVAL == 1
\* poll_for_response(..., initial_delay = 2.0)
INITIAL_DELAY == 2
\* int(time.time()) when a request is verified.
Now == 1000

\* The inputs of the requests.
ThreadIds == {"t1"}
AgentInputs == {"codex", "claude", "bash", ""}
MessageInputs == {"", "build it"}
\* What a child does: its exit code and the output it has written by then.
\* A child that exits on its own, one that dies of the terminate() signal,
\* and the output captured from a child the supervisor kills.
ChildRuns == { [code |-> 0, output |-> "done"], [code |-> 2, output |-> "boom"] }
TerminatedRun == [code |-> -SIGTERM, output |-> ""]
KilledOutputs == {"", "partial"}

\* The credentials of a request.  A header X-EDI-Timestamp is absent, or the
\* decimal text of an integer, or a text that is no integer; a header
\* X-EDI-Signature is absent or a digest.  HMAC-SHA256 is modelled as an
\* ideal MAC: the digest determines the key and the signed text.
NoTimestamp == [kind |-> "none", value |-> 0]
BadTimestamp == [kind |-> "text", value |-> 0]
Timestamp(v) == [kind |-> "int", value |-> v]
NoSignature == [key |-> "", timestamp |-> NoTimestamp, payload |-> ""]
Mac(secret, timestamp, payload) ==
    [key |-> secret, timestamp |-> timestamp, payload |-> payload]
Body == "body"
\* What load_auth_secret() returns ("" when no secret is configured) and the
\* two headers of the request.  Without a secret the headers are not read.
\* With one: no header, one header alone, both and valid, a wrong
\* signature, and an expired timestamp with the signature of a fresh one.
Credentials ==
    { [secret |-> "", timestamp |-> NoTimestamp, signature |-> NoSignature],
      [secret |-> "k1", timestamp |-> NoTimestamp, signature |-> NoSignature],
      [secret |-> "k1", timestamp |-> Timestamp(Now), signature |-> NoSignature],
      [secret |-> "k1", timestamp |-> NoTimestamp,
       signature |-> Mac("k1", Timestamp(Now), Body)],
      [secret |-> "k1", timestamp |-> Timestamp(Now),
       signature |-> Mac("k1", Timestamp(Now), Body)],
      [secret |-> "k1", timestamp |-> Timestamp(Now),
       signature |-> Mac("k2", Timestamp(Now), Body)],
      [secret |-> "k1", timestamp |-> Timestamp(Now - AUTH_TIMESTAMP_TOLERANCE - 1),
       signature |-> Mac("k1", Timestamp(Now), Body)] }
\* The inputs of an /ask request.
AskTimeouts == {1, 4}

\* The JSON values an entry of a thread file may hold under "turn": an
\* integer, a string (its characters) or nothing at all.
JInt(n) == [kind |-> "int", int |-> n, str |-> << >>]
JStr(text) == [kind |-> "str", int |-> 0, str |-> text]
JNone == [kind |-> "none", int |-> 0, str |-> << >>]

\* The callback of a /dispatch request: none, an object without a session
\* key (or with an empty one), or an object that names a session.
NoCallback == [given |-> FALSE, sessionKey |-> ""]
Callback(sessionKey) == [given |-> TRUE, sessionKey |-> sessionKey]
CallbackInputs == { Callback(""), Callback("s1") }

\* The rest of the payload of a /dispatch request: a timeout that is absent,
\* a number or no number; a callback that is absent, an object or a text;
\* a working directory that is a directory, a file or missing.
ValidPayload == [timeout |-> "None", callback |-> "None", workdir |-> "dir"]
PayloadInputs ==
    [timeout : {"None", "number", "text"}, callback : {"None", "object", "text"},
     workdir : {"dir", "file", "missing"}]

\* The threadId of a request: the id of a thread, a string that is no valid
\* id, or a number; an /ask request may also carry none.
ThreadIdInputs ==
    { JStr(<< "t", "1" >>), JStr(<< "t", "/" >>), JInt(5) }
AskThreadInputs == { JNone } \cup ThreadIdInputs

Entry(turn, role, content, exitCode, by) ==
    [turn |-> JInt(turn), role |-> role, content |-> content,
     exitCode |-> exitCode, task |-> by]

\* The thread files the server may find on disk when it starts: none, or
\* a thread that holds two agent-kinds.  The field task is a history
\* variable: the task that wrote the entry, 0 for an entry older than this
\* run of the server.
MixedHistory ==
    << Entry(1, EDI, "old", NoCode, 0), Entry(1, EDI, "old", NoCode, 0),
       Entry(1, "codex", "done", 0, 0), Entry(1, "claude", "done", 0, 0) >>
InitialHistories == { << >>, MixedHistory }

VARIABLES
    threads,    \* thread id -> the entries of <threadId>.jsonl, in file order
    TASKS,      \* the registry: task id -> TaskRecord, for the tasks created
    child,      \* task id -> the child process of the task
    sup,        \* task id -> the supervisor thread of the task (its locals)
    disp,       \* request id -> the /dispatch handler thread (its locals)
    canc,       \* request id -> the cancel handler thread (its locals)
    ask,        \* request id -> the /ask handler thread (its locals)
    call,       \* one call of a pure function: its arguments and its result
    locks,      \* THREAD_LOCK and TASKS_LOCK: the thread that holds each
    thr,        \* thread -> its position in its sequence of lock operations
    tail        \* thread id -> the unfinished last line of <threadId>.jsonl

vars == << threads, TASKS, child, sup, disp, canc, ask, call, locks, thr, tail >>

\* ------------------------------------------------------- pure functions
Max(a, b) == IF a > b THEN a ELSE b

\* int(): an integer is itself, a string of decimal digits is the number it
\* spells, every other string raises ValueError and None raises TypeError.
Digits == << "0", "1", "2", "3", "4", "5", "6", "7", "8", "9" >>
IsDigit(c) == \E d \in 1..Len(Digits) : Digits[d] = c
DigitValue(c) == (CHOOSE d \in 1..Len(Digits) : Digits[d] = c) - 1

RECURSIVE ParseDigits(_, _)
ParseDigits(text, acc) ==
    IF text = << >> THEN acc
    ELSE ParseDigits(Tail(text), acc * Len(Digits) + DigitValue(Head(text)))

int(v) ==
    CASE v.kind = "int" -> [ok |-> TRUE, value |-> v.int]
      [] v.kind = "str" ->
            IF v.str # << >> /\ \A i \in 1..Len(v.str) : IsDigit(v.str[i])
            THEN [ok |-> TRUE, value |-> ParseDigits(v.str, 0)]
            ELSE [ok |-> FALSE, value |-> 0]
      [] OTHER -> [ok |-> FALSE, value |-> 0]

RECURSIVE MaxTurn(_)
MaxTurn(entries) ==
    IF entries = << >> THEN 0
    ELSE LET turn_value == int(Head(entries).turn)
         IN  IF turn_value.ok
             THEN Max(turn_value.value, MaxTurn(Tail(entries)))
             ELSE MaxTurn(Tail(entries))

next_turn_number(entries) == MaxTurn(entries) + 1

\* A header or a chunk-size line that may hold a number: absent, a text that
\* is no number, or the number it spells.
NoHeader == [kind |-> "none", value |-> 0]
BadNumber == [kind |-> "text", value |-> 0]
Number(n) == [kind |-> "int", value |-> n]

\* rfile.read(n) on a stream that holds sent more bytes before its end: n
\* bytes or all that is left, and all that is left for a negative n.
rfile_read(n, sent) == IF n < 0 \/ n > sent THEN sent ELSE n

\* What a body reader returns: the length of the body it accepted (line 0),
\* or the line of the 400 or 413 answer it sent.
BodyRead(line, length) == [line |-> line, length |-> length]

\* The chunks are read one by one into data: a size of 0 ends the body, the
\* end of the stream before it is an error, and the total is tested after
\* each chunk.
RECURSIVE read_chunked_body(_, _)
read_chunked_body(chunks, data) ==
    IF chunks = << >> THEN BodyRead(625, 0)
    ELSE LET chunk_size == Head(chunks)
         IN  IF chunk_size.kind # "int" THEN BodyRead(632, 0)
             ELSE IF chunk_size.value = 0 THEN BodyRead(0, data)
             ELSE IF data + chunk_size.value > MAX_REQUEST_SIZE THEN BodyRead(647, 0)
             ELSE read_chunked_body(Tail(chunks), data + chunk_size.value)

read_raw_body(chunked, content_length, sent, chunks) ==
    IF chunked THEN read_chunked_body(chunks, 0)
    ELSE IF content_length.kind = "text" THEN BodyRead(610, 0)
    ELSE LET length == content_length.value
         IN  IF length > MAX_REQUEST_SIZE THEN BodyRead(614, 0)
             ELSE BodyRead(0, IF length # 0 THEN rfile_read(length, sent) ELSE 0)

\* The X-Hub-Signature-256 header: absent, or a prefix and the hex digest of
\* a payload under a key.
NoGithubSignature == [prefix |-> "", key |-> "", payload |-> ""]
GithubSignature(prefix, key, payload) ==
    [prefix |-> prefix, key |-> key, payload |-> payload]

\* A variant that compares the digests and not the prefix.
verify_github_signature_AnyPrefix(payload, signature, secret) ==
    /\ signature.key = secret
    /\ signature.payload = payload

verify_github_signature(payload, signature, secret) ==
    signature = GithubSignature("sha256=", secret, payload)

\* _handle_github_webhook up to the upstream call: the body is read first,
\* then the secret is loaded and the signature verified, then the payload
\* is parsed.  The line of the answer sent, or 0 when the hook is due.
webhook_verify(content_length, payload, json_ok, github_secret, signature) ==
    IF content_length.kind = "text" THEN BodyRead(1112, 0)
    ELSE IF content_length.value > MAX_REQUEST_SIZE THEN BodyRead(1108, 0)
    ELSE LET raw_payload == IF content_length.value # 0 THEN payload ELSE ""
         IN  IF github_secret = "None" THEN BodyRead(1119, 0)
             ELSE IF signature = NoGithubSignature THEN BodyRead(1124, 0)
             ELSE IF ~ verify_github_signature(raw_payload, signature, github_secret)
                  THEN BodyRead(1129, 0)
             ELSE IF raw_payload # "" /\ ~ json_ok THEN BodyRead(1136, 0)
             ELSE BodyRead(0, 0)

\* The status code of the answer sent at a line of the webhook handler.
WebhookCode(line) ==
    CASE line = 1108 -> 413
      [] line \in {1112, 1136} -> 400
      [] line = 1119 -> 503
      [] line \in {1124, 1129} -> 401
      [] line = 1171 -> 200
      [] line = 1180 -> 500

\* isinstance(turn, int)
IsInt(v) == v.kind = "int"

\* turn_order: the integer turns of the entries, each once, in the order of
\* their first appearance.
RECURSIVE TurnOrder(_, _)
TurnOrder(entries, turn_order) ==
    IF entries = << >> THEN turn_order
    ELSE LET turn == Head(entries).turn
             seen_turns == { turn_order[i] : i \in 1..Len(turn_order) }
         IN  TurnOrder(Tail(entries),
                       IF IsInt(turn) /\ turn.int \notin seen_turns
                       THEN Append(turn_order, turn.int) ELSE turn_order)

\* A variant that keeps the first max_turns turns of a thread.
filter_entries_for_prompt_FirstTurns(entries, max_turns) ==
    LET turn_order == TurnOrder(entries, << >>)
        selected_turns == { turn_order[i] : i \in 1..Max(0, max_turns) }
    IN  IF max_turns <= 0 THEN << >>
        ELSE IF Len(turn_order) <= max_turns THEN entries
        ELSE SelectSeq(entries,
                       LAMBDA entry : IsInt(entry.turn) /\ entry.turn.int \in selected_turns)

\* A variant that drops the entries without an integer turn even from a
\* thread of at most max_turns turns.
filter_entries_for_prompt_AlwaysSelects(entries, max_turns) ==
    LET turn_order == TurnOrder(entries, << >>)
        selected_turns ==
            { turn_order[i] :
                i \in Max(1, Len(turn_order) - max_turns + 1)..Len(turn_order) }
    IN  IF max_turns <= 0 THEN << >>
        ELSE SelectSeq(entries,
                       LAMBDA entry : IsInt(entry.turn) /\ entry.turn.int \in selected_turns)

filter_entries_for_prompt(entries, max_turns) ==
    LET turn_order == TurnOrder(entries, << >>)
        selected_turns ==
            { turn_order[i] : i \in (Len(turn_order) - max_turns + 1)..Len(turn_order) }
    IN  IF max_turns <= 0 THEN << >>
        ELSE IF Len(turn_order) <= max_turns THEN entries
        ELSE SelectSeq(entries,
                       LAMBDA entry : IsInt(entry.turn) /\ entry.turn.int \in selected_turns)

\* THREAD_ID_RE: the characters of [A-Za-z0-9._-].
ThreadIdChars ==
    { "A", "B", "C", "D", "E", "F", "G", "H", "I", "J", "K", "L", "M",
      "N", "O", "P", "Q", "R", "S", "T", "U", "V", "W", "X", "Y", "Z",
      "a", "b", "c", "d", "e", "f", "g", "h", "i", "j", "k", "l", "m",
      "n", "o", "p", "q", "r", "s", "t", "u", "v", "w", "x", "y", "z",
      "0", "1", "2", "3", "4", "5", "6", "7", "8", "9", ".", "_", "-" }
THREAD_ID_RE_fullmatch(text) ==
    text # << >> /\ \A i \in 1..Len(text) : text[i] \in ThreadIdChars

\* "x" in text, for a text x of one or two characters.
Contains(text, x) ==
    \E i \in 1..(Len(text) - Len(x) + 1) : SubSeq(text, i, i + Len(x) - 1) = x

\* A variant without the test for two dots in a row.
validate_thread_id_DotsAllowed(thread_id) ==
    IF thread_id.kind # "str" THEN [ok |-> FALSE, error |-> "threadId must be a string"]
    ELSE IF thread_id.str = << >> THEN [ok |-> FALSE, error |-> "threadId required"]
    ELSE IF \/ Contains(thread_id.str, << "/" >>)
            \/ Contains(thread_id.str, << "\\" >>)
         THEN [ok |-> FALSE, error |-> "Invalid threadId"]
    ELSE IF ~ THREAD_ID_RE_fullmatch(thread_id.str)
         THEN [ok |-> FALSE, error |-> "Invalid threadId"]
    ELSE [ok |-> TRUE, error |-> ""]

\* validate_thread_id returns the id or raises ValueError with a message.
validate_thread_id(thread_id) ==
    IF thread_id.kind # "str" THEN [ok |-> FALSE, error |-> "threadId must be a string"]
    ELSE IF thread_id.str = << >> THEN [ok |-> FALSE, error |-> "threadId required"]
    ELSE IF \/ Contains(thread_id.str, << "/" >>)
            \/ Contains(thread_id.str, << "\\" >>)
            \/ Contains(thread_id.str, << ".", "." >>)
         THEN [ok |-> FALSE, error |-> "Invalid threadId"]
    ELSE IF ~ THREAD_ID_RE_fullmatch(thread_id.str)
         THEN [ok |-> FALSE, error |-> "Invalid threadId"]
    ELSE [ok |-> TRUE, error |-> ""]

\* The thread ids of the model, spelled out, and the id a text spells.
Text(thread_id) == CASE thread_id = "t1" -> << "t", "1" >>
ThreadIdOf(text) ==
    IF \E t \in ThreadIds : Text(t) = text
    THEN CHOOSE t \in ThreadIds : Text(t) = text
    ELSE "None"

\* What a handler does with the threadId it is given: the line of the 400
\* answer, or 0 and the thread the handler goes on with ("None" for a
\* thread that has no file yet, such as one named by a fresh uuid).
ThreadIdOutcome(line, thread_id) == [line |-> line, thread_id |-> thread_id]

dispatch_threadId(raw_thread_id) ==
    IF raw_thread_id = JNone THEN ThreadIdOutcome(0, "None")
    ELSE IF raw_thread_id.kind # "str" THEN ThreadIdOutcome(932, "None")
    ELSE IF ~ validate_thread_id(raw_thread_id).ok THEN ThreadIdOutcome(937, "None")
    ELSE ThreadIdOutcome(0, ThreadIdOf(raw_thread_id.str))

ask_threadId(thread_id) ==
    IF thread_id = JNone THEN ThreadIdOutcome(0, "None")
    ELSE IF thread_id.kind # "str" THEN ThreadIdOutcome(837, "None")
    ELSE IF ~ validate_thread_id(thread_id).ok THEN ThreadIdOutcome(842, "None")
    ELSE ThreadIdOutcome(0, ThreadIdOf(thread_id.str))

\* GET /thread/<id>: the id is the rest of the path, always a string.
get_thread_threadId(path_rest) ==
    IF path_rest = << >> THEN ThreadIdOutcome(785, "None")
    ELSE IF ~ validate_thread_id(JStr(path_rest)).ok THEN ThreadIdOutcome(790, "None")
    ELSE ThreadIdOutcome(0, ThreadIdOf(path_rest))

AgentRoles(entries) ==
    { entries[i].role : i \in 1..Len(entries) } \ { EDI }

\* A variant that reports the agent of a thread without noticing a second
\* agent-kind in it.
existing_agent_ignoring_mixed(entries) ==
    LET agents == AgentRoles(entries)
    IN  IF agents # {} THEN CHOOSE a \in agents : TRUE ELSE NoAgent

existing_agent_for_thread(entries) ==
    LET agents == AgentRoles(entries)
    IN  IF Cardinality(agents) = 1 THEN CHOOSE a \in agents : TRUE
        ELSE IF Cardinality(agents) > 1 THEN MIXED
        ELSE NoAgent

\* An id that names no file, valid or not, loads as no entries.
load_thread_entries(thread_id) ==
    IF thread_id \in ThreadIds THEN threads[thread_id] ELSE << >>

Abs(n) == IF n < 0 THEN -n ELSE n

\* A variant whose window is closed at the tolerance itself.
verify_hmac_signature_ClosedWindow(payload, timestamp, signature, secret, now) ==
    IF timestamp.kind # "int"
    THEN [is_valid |-> FALSE, error |-> "Invalid timestamp format"]
    ELSE IF Abs(now - timestamp.value) >= AUTH_TIMESTAMP_TOLERANCE
    THEN [is_valid |-> FALSE, error |-> "Timestamp expired (replay protection)"]
    ELSE IF signature # Mac(secret, timestamp, payload)
    THEN [is_valid |-> FALSE, error |-> "Invalid signature"]
    ELSE [is_valid |-> TRUE, error |-> ""]

\* ts = int(timestamp) raises ValueError for a text that is no integer.
verify_hmac_signature(payload, timestamp, signature, secret, now) ==
    IF timestamp.kind # "int"
    THEN [is_valid |-> FALSE, error |-> "Invalid timestamp format"]
    ELSE IF Abs(now - timestamp.value) > AUTH_TIMESTAMP_TOLERANCE
    THEN [is_valid |-> FALSE, error |-> "Timestamp expired (replay protection)"]
    ELSE IF signature # Mac(secret, timestamp, payload)
    THEN [is_valid |-> FALSE, error |-> "Invalid signature"]
    ELSE [is_valid |-> TRUE, error |-> ""]

\* A variant that lets a request without the headers pass.
require_auth_HeadersOptional(payload, h) ==
    IF h.secret = "" THEN 0
    ELSE IF h.timestamp = NoTimestamp \/ h.signature = NoSignature THEN 0
    ELSE IF ~ verify_hmac_signature(payload, h.timestamp, h.signature,
                                    h.secret, Now).is_valid THEN 749
    ELSE 0

\* _require_auth: 0 when the request may go on, else the line of the
\* _send_json(401, ...) that answers it.
require_auth(payload, h) ==
    IF h.secret = "" THEN 0
    ELSE IF h.timestamp = NoTimestamp \/ h.signature = NoSignature THEN 743
    ELSE IF ~ verify_hmac_signature(payload, h.timestamp, h.signature,
                                    h.secret, Now).is_valid THEN 749
    ELSE 0

\* History: a secret is configured and the request does not carry a
\* timestamp within the tolerance and the digest of that timestamp and its
\* body under the secret.
Unauthenticated(payload, h) ==
    /\ h.secret # ""
    /\ ~ (/\ h.timestamp.kind = "int"
          /\ Abs(Now - h.timestamp.value) <= AUTH_TIMESTAMP_TOLERANCE
          /\ h.signature = Mac(h.secret, h.timestamp, payload))

\* A variant that opens the file for writing, not for appending.
append_thread_entry_Truncating(thread_id, entry) ==
    threads' = [threads EXCEPT ![thread_id] = << entry >>]

append_thread_entry(thread_id, entry) ==
    threads' = [threads EXCEPT ![thread_id] = Append(@, entry)]

\* ------------------------------------------------ locks and thread files
\* The two module-level locks (threading.Lock, not reentrant) and the threads
\* that take them: the handler threads of one /dispatch, one cancel, one
\* GET /tasks and one GET /thread/<id>, and the supervisor of the task.
THREAD_LOCK == "THREAD_LOCK"
TASKS_LOCK == "TASKS_LOCK"
Locks == { THREAD_LOCK, TASKS_LOCK }
Workers == { "dispatch", "run_dispatch_task", "cancel", "tasks", "thread" }
NoLock == "None"
NoWorker == "None"

\* One operation of a thread: what it does, on which lock, and the source
\* line that does it.
Op(op, lock, line) == [op |-> op, lock |-> lock, line |-> line]

\* load_thread_entries: read_text() inside THREAD_LOCK.
load_thread_entries_ops ==
    << Op("acquire", THREAD_LOCK, 343), Op("read", NoLock, 345),
       Op("release", THREAD_LOCK, 345) >>

\* append_thread_entry: open, write and close (which flushes) inside
\* THREAD_LOCK.
append_thread_entry_ops ==
    << Op("acquire", THREAD_LOCK, 366), Op("write", NoLock, 368),
       Op("close", NoLock, 367), Op("release", THREAD_LOCK, 366) >>

\* A variant whose handler waits for the child where the code sleeps.
dispatch_ops_WaitsForTask ==
    load_thread_entries_ops \o append_thread_entry_ops \o
    << Op("acquire", TASKS_LOCK, 976), Op("release", TASKS_LOCK, 985),
       Op("start", NoLock, 992),
       Op("acquire", TASKS_LOCK, 994), Op("release", TASKS_LOCK, 995),
       Op("wait", NoLock, 998),
       Op("acquire", TASKS_LOCK, 1000), Op("release", TASKS_LOCK, 1001),
       Op("respond", NoLock, 1040) >>

\* An accepted /dispatch: load, append, create the TaskRecord, start the
\* supervisor, record the thread, sleep, take the snapshot, answer.
dispatch_ops ==
    load_thread_entries_ops \o append_thread_entry_ops \o
    << Op("acquire", TASKS_LOCK, 976), Op("release", TASKS_LOCK, 985),
       Op("start", NoLock, 992),
       Op("acquire", TASKS_LOCK, 994), Op("release", TASKS_LOCK, 995),
       Op("sleep", NoLock, 998),
       Op("acquire", TASKS_LOCK, 1000), Op("release", TASKS_LOCK, 1001),
       Op("respond", NoLock, 1040) >>

\* A variant whose supervisor writes the agent entry inside the critical
\* section of its final update.
run_dispatch_task_ops_AppendsInsideUpdate ==
    << Op("acquire", TASKS_LOCK, 538), Op("release", TASKS_LOCK, 542),
       Op("wait", NoLock, 545),
       Op("acquire", TASKS_LOCK, 573) >>
    \o append_thread_entry_ops \o
    << Op("release", TASKS_LOCK, 582), Op("upstream", NoLock, 595) >>

\* The supervisor: register the process, wait for the child, append the
\* agent entry, record the final status, post the callback.
run_dispatch_task_ops ==
    << Op("acquire", TASKS_LOCK, 538), Op("release", TASKS_LOCK, 542),
       Op("wait", NoLock, 545) >>
    \o append_thread_entry_ops \o
    << Op("acquire", TASKS_LOCK, 573), Op("release", TASKS_LOCK, 582),
       Op("upstream", NoLock, 595) >>

\* A cancel that finds its task running: look it up, set the flag, signal
\* the child, answer.
cancel_ops ==
    << Op("acquire", TASKS_LOCK, 1061), Op("release", TASKS_LOCK, 1062),
       Op("acquire", TASKS_LOCK, 1072), Op("release", TASKS_LOCK, 1077),
       Op("signal", NoLock, 1081), Op("respond", NoLock, 1085) >>

\* GET /tasks: the listing is built inside TASKS_LOCK.
tasks_ops ==
    << Op("acquire", TASKS_LOCK, 767), Op("release", TASKS_LOCK, 777),
       Op("respond", NoLock, 779) >>

\* GET /thread/<id>.
thread_ops ==
    load_thread_entries_ops \o << Op("respond", NoLock, 799) >>

Ops(w) ==
    CASE w = "dispatch" -> dispatch_ops
      [] w = "run_dispatch_task" -> run_dispatch_task_ops
      [] w = "cancel" -> cancel_ops
      [] w = "tasks" -> tasks_ops
      [] w = "thread" -> thread_ops

\* A line of a thread file: the entry it spells, whole or cut short.
Line(entry, whole) == [whole |-> whole, entry |-> entry]

\* ------------------------------------------------------------------ Init
NoResponse == [code |-> 0, ok |-> FALSE, status |-> "", line |-> 0]

NoCall == [fn |-> "", done |-> FALSE, args |-> << >>, result |-> << >>]

\* The server after its start: no task, no request in progress.
InitServer ==
    /\ threads \in [ThreadIds -> InitialHistories]
    /\ TASKS = << >>
    /\ child = [t \in TaskIds |->
                  [state |-> "none", code |-> NoCode, output |-> "", terms |-> 0]]
    /\ sup = [t \in TaskIds |->
                  [pc |-> "idle", exit_code |-> NoCode, error |-> "", output |-> "",
                   status |-> "", posted |-> 0, delivered |-> FALSE]]
    /\ disp = [r \in DispatchIds |->
                  [pc |-> "idle", thread_id |-> "", agent |-> "", message |-> "",
                   turn |-> 0, callback |-> NoCallback, unauth |-> FALSE,
                   resp |-> NoResponse]]
    /\ canc = [k \in CancelIds |->
                  [pc |-> "idle", task_id |-> 0, process |-> FALSE,
                   unauth |-> FALSE, resp |-> NoResponse]]
    /\ ask = [a \in AskIds |->
                  [pc |-> "idle", message |-> "", is_new_thread |-> FALSE,
                   timeout_seconds |-> 0, elapsed |-> 0, calls |-> 0, upstream |-> << >>,
                   unauth |-> FALSE, resp |-> NoResponse]]
    /\ locks = [l \in Locks |-> NoWorker]
    /\ thr = [w \in Workers |->
                  [pc |-> IF w = "run_dispatch_task" THEN 0 ELSE 1,
                   entries |-> << >>, loaded |-> FALSE, slept |-> 0]]
    /\ tail = [th \in ThreadIds |-> << >>]

Init ==
    /\ InitServer
    /\ call = NoCall

\* ------------------------------------------------ POST /dispatch handler
Response(code, ok, status, line) ==
    [code |-> code, ok |-> ok, status |-> status, line |-> line]

\* The field line of a response is a history variable: the source line of
\* the _send_json call that sent it.
D_Respond(r, code, ok, status, line) ==
    disp' = [disp EXCEPT ![r].pc = "done",
                         ![r].resp = Response(code, ok, status, line)]

\* Requests are numbered in the order in which their handlers start.
Started ==
    Cardinality({ r \in DispatchIds : disp[r].pc # "idle" })
    + Cardinality({ k \in CancelIds : canc[k].pc # "idle" })

D_Arrived(r) ==
    /\ Started < MaxRequests
    /\ \A q \in DispatchIds : q < r => disp[q].pc # "idle"

\* A variant that checks the working directory only after the edi entry is
\* written.
D_Refuse_WorkdirAfterAppend(r, payloads) ==
    /\ disp[r].pc = "idle"
    /\ D_Arrived(r)
    /\ \E h \in Credentials, agent \in AgentInputs, message \in MessageInputs,
          raw_thread_id \in ThreadIdInputs, payload \in payloads :
        LET validated == dispatch_threadId(raw_thread_id)
            thread_id == validated.thread_id
            entries == load_thread_entries(thread_id)
            existing_agent == existing_agent_for_thread(entries)
            auth == require_auth(Body, h)
            line == IF agent = "" \/ message = "" THEN 918
                    ELSE IF agent \notin Agents THEN 924
                    ELSE IF validated.line # 0 THEN validated.line
                    ELSE IF payload.timeout = "text" THEN 943
                    ELSE IF payload.callback = "text" THEN 948
                    ELSE IF payload.workdir # "dir" THEN 952
                    ELSE IF existing_agent = MIXED THEN 958
                    ELSE IF existing_agent # NoAgent /\ existing_agent # agent THEN 961
                    ELSE 0
        IN  IF auth # 0
            THEN disp' = [disp EXCEPT ![r].pc = "done",
                                      ![r].unauth = Unauthenticated(Body, h),
                                      ![r].resp = Response(401, FALSE, "", auth)]
            ELSE /\ line # 0
                 /\ disp' = [disp EXCEPT ![r].pc = "done",
                                         ![r].thread_id = thread_id,
                                         ![r].agent = agent,
                                         ![r].message = message,
                                         ![r].unauth = Unauthenticated(Body, h),
                                         ![r].resp = Response(400, FALSE, "", line)]
    /\ IF disp'[r].resp.line = 952
       THEN append_thread_entry(disp'[r].thread_id,
                Entry(next_turn_number(load_thread_entries(disp'[r].thread_id)),
                      EDI, disp'[r].message, NoCode, r))
       ELSE UNCHANGED threads
    /\ UNCHANGED << TASKS, child, sup, canc, ask, call, locks, thr, tail >>


\* Authentication, then validation of the payload, then the binding check
\* on the loaded thread.  A request that fails authentication is answered
\* before any field of its payload is read.
D_Refuse(r, payloads) ==
    /\ disp[r].pc = "idle"
    /\ D_Arrived(r)
    /\ \E h \in Credentials, agent \in AgentInputs, message \in MessageInputs,
          raw_thread_id \in ThreadIdInputs, payload \in payloads :
        LET validated == dispatch_threadId(raw_thread_id)
            thread_id == validated.thread_id
            entries == load_thread_entries(thread_id)
            existing_agent == existing_agent_for_thread(entries)
            auth == require_auth(Body, h)
            line == IF agent = "" \/ message = "" THEN 918
                    ELSE IF agent \notin Agents THEN 924
                    ELSE IF validated.line # 0 THEN validated.line
                    ELSE IF payload.timeout = "text" THEN 943
                    ELSE IF payload.callback = "text" THEN 948
                    ELSE IF payload.workdir # "dir" THEN 952
                    ELSE IF existing_agent = MIXED THEN 958
                    ELSE IF existing_agent # NoAgent /\ existing_agent # agent THEN 961
                    ELSE 0
        IN  IF auth # 0
            THEN disp' = [disp EXCEPT ![r].pc = "done",
                                      ![r].unauth = Unauthenticated(Body, h),
                                      ![r].resp = Response(401, FALSE, "", auth)]
            ELSE /\ line # 0
                 /\ disp' = [disp EXCEPT ![r].pc = "done",
                                         ![r].thread_id = thread_id,
                                         ![r].agent = agent,
                                         ![r].message = message,
                                         ![r].unauth = Unauthenticated(Body, h),
                                         ![r].resp = Response(400, FALSE, "", line)]
    /\ UNCHANGED << threads, TASKS, child, sup, canc, ask, call, locks, thr, tail >>

\* A request whose timeout, callback and working directory are in order, and
\* one with any of them.
D_Reject(r) == D_Refuse(r, { ValidPayload })
D_RejectPayload(r) == D_Refuse(r, PayloadInputs \ { ValidPayload })

\* The request passes authentication, validation and the binding check: entries are loaded
\* under THREAD_LOCK and the turn of the edi entry is computed from them.
D_Accept(r, callbacks) ==
    /\ disp[r].pc = "idle"
    /\ D_Arrived(r)
    /\ \E h \in Credentials, agent \in AgentInputs, message \in MessageInputs,
          raw_thread_id \in ThreadIdInputs, callback \in callbacks :
        LET validated == dispatch_threadId(raw_thread_id)
            thread_id == validated.thread_id
            entries == load_thread_entries(thread_id)
            existing_agent == existing_agent_for_thread(entries)
        IN  /\ require_auth(Body, h) = 0
            /\ agent # "" /\ message # ""
            /\ agent \in Agents
            /\ validated.line = 0
            /\ existing_agent # MIXED
            /\ ~ (existing_agent # NoAgent /\ existing_agent # agent)
            /\ disp' = [disp EXCEPT ![r].pc = "append",
                                    ![r].thread_id = thread_id,
                                    ![r].agent = agent,
                                    ![r].message = message,
                                    ![r].callback = callback,
                                    ![r].unauth = Unauthenticated(Body, h),
                                    ![r].turn = next_turn_number(entries)]
    /\ UNCHANGED << threads, TASKS, child, sup, canc, ask, call, locks, thr, tail >>

\* A request without a callback, and one that carries a callback object.
D_Load(r) == D_Accept(r, { NoCallback })
D_LoadWithCallback(r) == D_Accept(r, CallbackInputs)

\* A variant that writes the edi entry only to a thread file that exists.
D_Append_ExistingFileOnly(r) ==
    /\ disp[r].pc = "append"
    /\ IF threads[disp[r].thread_id] = << >>
       THEN UNCHANGED threads
       ELSE append_thread_entry(disp[r].thread_id,
                Entry(disp[r].turn, EDI, disp[r].message, NoCode, r))
    /\ disp' = [disp EXCEPT ![r].pc = "create"]
    /\ UNCHANGED << TASKS, child, sup, canc, ask, call, locks, thr, tail >>

D_Append(r) ==
    /\ disp[r].pc = "append"
    /\ append_thread_entry(disp[r].thread_id,
            Entry(disp[r].turn, EDI, disp[r].message, NoCode, r))
    /\ disp' = [disp EXCEPT ![r].pc = "create"]
    /\ UNCHANGED << TASKS, child, sup, canc, ask, call, locks, thr, tail >>

NewTask(r) ==
    [threadId |-> disp[r].thread_id, agent |-> disp[r].agent,
     status |-> "running", cancel_requested |-> FALSE, process |-> FALSE,
     exitCode |-> NoCode, error |-> ""]

\* A variant that may announce the task and start its supervisor before the
\* edi entry is written.
D_Create_BeforeAppend(r) ==
    /\ disp[r].pc \in {"append", "create"}
    /\ IF r \in DOMAIN TASKS
       THEN /\ disp[r].pc = "create"
            /\ disp' = [disp EXCEPT ![r].pc = "sleep"]
            /\ UNCHANGED << TASKS, sup >>
       ELSE /\ TASKS' = (r :> NewTask(r)) @@ TASKS
            /\ sup' = [sup EXCEPT ![r].pc = "spawn"]
            /\ disp' = [disp EXCEPT ![r].pc =
                            IF disp[r].pc = "create" THEN "sleep" ELSE "append"]
    /\ UNCHANGED << threads, child, canc, ask, call, locks, thr, tail >>

\* TASKS[task_id] = {...} under TASKS_LOCK, then thread.start().  The later
\* store of the thread handle in the record is read by no code.
D_Create(r) ==
    /\ disp[r].pc = "create"
    /\ TASKS' = (r :> NewTask(r)) @@ TASKS
    /\ sup' = [sup EXCEPT ![r].pc = "spawn"]
    /\ disp' = [disp EXCEPT ![r].pc = "sleep"]
    /\ UNCHANGED << threads, child, canc, ask, call, locks, thr, tail >>

\* After time.sleep: the snapshot under TASKS_LOCK and the answer it decides.
D_Snapshot(r) ==
    /\ disp[r].pc = "sleep"
    /\ IF DISPATCH_EARLY_CHECK_SECONDS > 0
       THEN LET status == TASKS[r].status
            IN  IF status # "running"
                THEN IF status = "failed"
                     THEN D_Respond(r, 500, FALSE, status, 1017)
                     ELSE D_Respond(r, 200, status \in {"completed", "canceled"},
                                    status, 1019)
                ELSE IF TASKS[r].process
                     THEN disp' = [disp EXCEPT ![r].pc = "poll"]
                     ELSE D_Respond(r, 200, TRUE, "running", 1040)
       ELSE D_Respond(r, 200, TRUE, "running", 1040)
    /\ UNCHANGED << threads, TASKS, child, sup, canc, ask, call, locks, thr, tail >>

\* process.poll() on the handle found in the snapshot.
D_Poll(r) ==
    /\ disp[r].pc = "poll"
    /\ IF child[r].state = "exited"
       THEN IF child[r].code = 0
            THEN D_Respond(r, 200, TRUE, "completed", 1037)
            ELSE D_Respond(r, 500, FALSE, "failed", 1035)
       ELSE D_Respond(r, 200, TRUE, "running", 1040)
    /\ UNCHANGED << threads, TASKS, child, sup, canc, ask, call, locks, thr, tail >>

\* ------------------------------------------------------ the child process
\* The agent exits on its own, or after a terminate() it may die of the
\* signal or trap it and exit with a code of its own.
Child_Exit(t) ==
    /\ child[t].state = "running"
    /\ \E run \in ChildRuns \cup { TerminatedRun } :
        /\ run = TerminatedRun => child[t].terms > 0
        /\ child' = [child EXCEPT ![t].state = "exited", ![t].code = run.code,
                                  ![t].output = run.output]
    /\ UNCHANGED << threads, TASKS, sup, disp, canc, ask, call, locks, thr, tail >>

\* ------------------------------------------- run_dispatch_task (supervisor)
\* subprocess.Popen: the child starts, or Popen raises (the executable or
\* the working directory is missing) and the outer except records the error.
S_Spawn(t) ==
    /\ sup[t].pc = "spawn"
    /\ \/ /\ child' = [child EXCEPT ![t].state = "running"]
          /\ sup' = [sup EXCEPT ![t].pc = "register"]
       \/ /\ sup' = [sup EXCEPT ![t].pc = "append", ![t].error = "spawn"]
          /\ UNCHANGED child
    /\ UNCHANGED << threads, TASKS, disp, canc, ask, call, locks, thr, tail >>

S_Register(t) ==
    /\ sup[t].pc = "register"
    /\ TASKS' = [TASKS EXCEPT ![t].process = TRUE]
    /\ sup' = [sup EXCEPT ![t].pc = "wait"]
    /\ UNCHANGED << threads, child, disp, canc, ask, call, locks, thr, tail >>

\* process.communicate(timeout=...) returns: the child has exited.
S_Communicate(t) ==
    /\ sup[t].pc = "wait"
    /\ child[t].state = "exited"
    /\ sup' = [sup EXCEPT ![t].pc = "append",
                          ![t].output = child[t].output,
                          ![t].exit_code = child[t].code]
    /\ UNCHANGED << threads, TASKS, child, disp, canc, ask, call, locks, thr, tail >>

\* A variant that loses the output captured from the child it kills.
S_Timeout_DropsOutput(t) ==
    /\ sup[t].pc = "wait"
    /\ child[t].state = "running"
    /\ \E output \in KilledOutputs :
        /\ child' = [child EXCEPT ![t].state = "exited", ![t].code = -SIGKILL,
                                  ![t].output = output]
        /\ sup' = [sup EXCEPT ![t].pc = "append", ![t].output = "",
                              ![t].exit_code = -SIGKILL, ![t].error = "timeout"]
    /\ UNCHANGED << threads, TASKS, disp, canc, ask, call, locks, thr, tail >>

\* TimeoutExpired: process.kill(), then communicate() collects the output
\* captured so far.
S_Timeout(t) ==
    /\ sup[t].pc = "wait"
    /\ child[t].state = "running"
    /\ \E output \in KilledOutputs :
        /\ child' = [child EXCEPT ![t].state = "exited", ![t].code = -SIGKILL,
                                  ![t].output = output]
        /\ sup' = [sup EXCEPT ![t].pc = "append", ![t].output = output,
                              ![t].exit_code = -SIGKILL, ![t].error = "timeout"]
    /\ UNCHANGED << threads, TASKS, disp, canc, ask, call, locks, thr, tail >>

\* output = (output or "").strip(); "Error: <error>" when there is none.
AgentContent(t) ==
    IF sup[t].error # "" /\ sup[t].output = ""
    THEN IF sup[t].error = "timeout" THEN "Error: timeout" ELSE "Error: spawn"
    ELSE sup[t].output

\* A variant whose append sits inside the try block: nothing is written
\* when Popen raised.
S_Append_InsideTry(t) ==
    /\ sup[t].pc = "append"
    /\ IF sup[t].error = "spawn"
       THEN UNCHANGED threads
       ELSE append_thread_entry(disp[t].thread_id,
                Entry(disp[t].turn, disp[t].agent, AgentContent(t),
                      sup[t].exit_code, t))
    /\ sup' = [sup EXCEPT ![t].pc = "final"]
    /\ UNCHANGED << TASKS, child, disp, canc, ask, call, locks, thr, tail >>

\* A variant that gives the agent entry the turn after the edi entry's.
S_Append_NextTurn(t) ==
    /\ sup[t].pc = "append"
    /\ append_thread_entry(disp[t].thread_id,
            Entry(disp[t].turn + 1, disp[t].agent, AgentContent(t),
                  sup[t].exit_code, t))
    /\ sup' = [sup EXCEPT ![t].pc = "final"]
    /\ UNCHANGED << TASKS, child, disp, canc, ask, call, locks, thr, tail >>

S_Append(t) ==
    /\ sup[t].pc = "append"
    /\ append_thread_entry(disp[t].thread_id,
            Entry(disp[t].turn, disp[t].agent, AgentContent(t), sup[t].exit_code, t))
    /\ sup' = [sup EXCEPT ![t].pc = "final"]
    /\ UNCHANGED << TASKS, child, disp, canc, ask, call, locks, thr, tail >>

\* A variant that decides the status from the exit code alone.
FinalStatus_ExitCodeOnly(t) ==
    IF TASKS[t].cancel_requested THEN "canceled"
    ELSE IF sup[t].exit_code \notin {0, NoCode} THEN "failed"
    ELSE "completed"

FinalStatus(t) ==
    IF TASKS[t].cancel_requested THEN "canceled"
    ELSE IF sup[t].error # "" THEN "failed"
    ELSE IF sup[t].exit_code \notin {0, NoCode} THEN "failed"
    ELSE "completed"

\* After the final update the supervisor posts the callback, if the request
\* carried one with a session key, and ends.
AfterFinal(t) ==
    IF disp[t].callback.given /\ disp[t].callback.sessionKey # ""
    THEN "callback" ELSE "done"

\* A variant that may publish the final status before the agent entry is
\* written.
S_Final_BeforeAppend(t) ==
    /\ \/ sup[t].pc = "final"
       \/ sup[t].pc = "append" /\ TASKS[t].status \notin TerminalStatus
    /\ TASKS' = [TASKS EXCEPT ![t].status = FinalStatus(t),
                              ![t].exitCode = sup[t].exit_code,
                              ![t].error = IF sup[t].error # "" THEN sup[t].error ELSE @]
    /\ sup' = [sup EXCEPT ![t].pc = IF sup[t].pc = "final" THEN AfterFinal(t)
                                    ELSE "append",
                          ![t].status = FinalStatus(t)]
    /\ UNCHANGED << threads, child, disp, canc, ask, call, locks, thr, tail >>

S_Final(t) ==
    /\ sup[t].pc = "final"
    /\ TASKS' = [TASKS EXCEPT ![t].status = FinalStatus(t),
                              ![t].exitCode = sup[t].exit_code,
                              ![t].error = IF sup[t].error # "" THEN sup[t].error ELSE @]
    /\ sup' = [sup EXCEPT ![t].pc = AfterFinal(t), ![t].status = FinalStatus(t)]
    /\ UNCHANGED << threads, child, disp, canc, ask, call, locks, thr, tail >>

\* A variant that marks the task failed when the callback was not delivered.
S_Callback_FailureFailsTask(t) ==
    /\ sup[t].pc = "callback"
    /\ \E ok \in BOOLEAN :
        /\ sup' = [sup EXCEPT ![t].pc = "done", ![t].posted = @ + 1,
                              ![t].delivered = ok]
        /\ TASKS' = IF ok THEN TASKS ELSE [TASKS EXCEPT ![t].status = "failed"]
    /\ UNCHANGED << threads, child, disp, canc, ask, call, locks, thr, tail >>

\* send_dispatch_callback: one sessions_send call to the session of the
\* callback; make_request folds every failure into its result, which is
\* dropped.
S_Callback(t) ==
    /\ sup[t].pc = "callback"
    /\ \E ok \in BOOLEAN :
        sup' = [sup EXCEPT ![t].pc = "done", ![t].posted = @ + 1,
                          ![t].delivered = ok]
    /\ UNCHANGED << threads, TASKS, child, disp, canc, ask, call, locks, thr, tail >>

\* ---------------------------------------- POST /tasks/<id>/cancel handler
K_Unauthorized(k, h, line) ==
    canc' = [canc EXCEPT ![k].pc = "done",
                         ![k].unauth = Unauthenticated(Body, h),
                         ![k].resp = Response(401, FALSE, "", line)]

K_Respond(k, t, code, status, line) ==
    canc' = [canc EXCEPT ![k].pc = "done", ![k].task_id = t,
                         ![k].resp = Response(code, code = 200, status, line)]

K_Arrived(k) ==
    /\ Started < MaxRequests
    /\ \A j \in CancelIds : j < k => canc[j].pc # "idle"

\* A variant that refuses to cancel only a task that is canceling or
\* canceled.
K_Lookup_CancelsFinished(k) ==
    /\ canc[k].pc = "idle"
    /\ K_Arrived(k)
    /\ \E h \in Credentials, t \in TaskIds :
        IF require_auth(Body, h) # 0
        THEN K_Unauthorized(k, h, require_auth(Body, h))
        ELSE IF t \notin DOMAIN TASKS
        THEN K_Respond(k, t, 404, "", 1065)
        ELSE IF TASKS[t].status \in {"canceling", "canceled"}
             THEN K_Respond(k, t, 200, TASKS[t].status, 1069)
             ELSE canc' = [canc EXCEPT ![k].pc = "set", ![k].task_id = t]
    /\ UNCHANGED << threads, TASKS, child, sup, disp, ask, call, locks, thr, tail >>

\* Authentication, then task = TASKS.get(task_id) under TASKS_LOCK, then
\* task.get("status") read from the same dict object without the lock.
K_Lookup(k) ==
    /\ canc[k].pc = "idle"
    /\ K_Arrived(k)
    /\ \E h \in Credentials, t \in TaskIds :
        IF require_auth(Body, h) # 0
        THEN K_Unauthorized(k, h, require_auth(Body, h))
        ELSE IF t \notin DOMAIN TASKS
        THEN K_Respond(k, t, 404, "", 1065)
        ELSE IF TASKS[t].status # "running"
             THEN K_Respond(k, t, 200, TASKS[t].status, 1069)
             ELSE canc' = [canc EXCEPT ![k].pc = "set", ![k].task_id = t]
    /\ UNCHANGED << threads, TASKS, child, sup, disp, ask, call, locks, thr, tail >>

\* A variant that sets the flag and leaves the status to the supervisor.
K_Set_FlagOnly(k) ==
    /\ canc[k].pc = "set"
    /\ TASKS' = [TASKS EXCEPT ![canc[k].task_id].cancel_requested = TRUE]
    /\ canc' = [canc EXCEPT ![k].pc = "signal",
                            ![k].process = TASKS[canc[k].task_id].process]
    /\ UNCHANGED << threads, child, sup, disp, ask, call, locks, thr, tail >>

K_Set(k) ==
    /\ canc[k].pc = "set"
    /\ TASKS' = [TASKS EXCEPT ![canc[k].task_id].cancel_requested = TRUE,
                              ![canc[k].task_id].status = "canceling"]
    /\ canc' = [canc EXCEPT ![k].pc = "signal",
                            ![k].process = TASKS[canc[k].task_id].process]
    /\ UNCHANGED << threads, child, sup, disp, ask, call, locks, thr, tail >>

\* if process and process.poll() is None: process.terminate()
K_Signal(k) ==
    /\ canc[k].pc = "signal"
    /\ child' = IF canc[k].process /\ child[canc[k].task_id].state = "running"
                THEN [child EXCEPT ![canc[k].task_id].terms = @ + 1]
                ELSE child
    /\ K_Respond(k, canc[k].task_id, 200, "canceling", 1085)
    /\ UNCHANGED << threads, TASKS, sup, disp, ask, call, locks, thr, tail >>

\* ----------------------------------------------------- POST /ask handler
A_Respond(a, code, line) ==
    ask' = [ask EXCEPT ![a].pc = "done",
                       ![a].resp = Response(code, code = 200, "", line)]

A_Arrived(a) == \A b \in AskIds : b < a => ask[b].pc # "idle"

\* The message is checked before the credentials; a request without a
\* threadId opens a new thread, one with a threadId continues that thread.
A_Receive(a) ==
    /\ ask[a].pc = "idle"
    /\ A_Arrived(a)
    /\ \E h \in Credentials, message \in MessageInputs,
          thread_id \in AskThreadInputs, timeout_seconds \in AskTimeouts :
        LET auth == require_auth(Body, h)
            validated == ask_threadId(thread_id)
            received == [ask EXCEPT ![a].message = message,
                                    ![a].unauth = Unauthenticated(Body, h)]
        IN  ask' = IF message = ""
                   THEN [received EXCEPT ![a].pc = "done",
                                         ![a].resp = Response(400, FALSE, "", 821)]
                   ELSE IF auth # 0
                   THEN [received EXCEPT ![a].pc = "done",
                                         ![a].resp = Response(401, FALSE, "", auth)]
                   ELSE IF validated.line # 0
                   THEN [received EXCEPT ![a].pc = "done",
                                         ![a].resp = Response(400, FALSE, "", validated.line)]
                   ELSE [received EXCEPT
                            ![a].pc = IF thread_id = JNone THEN "hook" ELSE "send",
                            ![a].is_new_thread = (thread_id = JNone),
                            ![a].timeout_seconds = timeout_seconds]
    /\ UNCHANGED << threads, TASKS, child, sup, disp, canc, call, locks, thr, tail >>

\* A variant that records the request in the thread file of a thread.
A_Hook_RecordsThread(a) ==
    /\ ask[a].pc = "hook"
    /\ \E ok \in BOOLEAN, thread_id \in ThreadIds :
        /\ append_thread_entry(thread_id, Entry(1, EDI, ask[a].message, NoCode, 0))
        /\ IF ok
           THEN ask' = [ask EXCEPT ![a].pc = "poll", ![a].calls = @ + 1,
                                   ![a].upstream = Append(@, "hooks/agent"),
                                   ![a].elapsed = INITIAL_DELAY]
           ELSE ask' = [ask EXCEPT ![a].pc = "done", ![a].calls = @ + 1,
                                   ![a].upstream = Append(@, "hooks/agent"),
                                   ![a].resp = Response(500, FALSE, "", 861)]
    /\ UNCHANGED << TASKS, child, sup, disp, canc, call, locks, thr, tail >>

\* trigger_agent_hook: one upstream call; then poll_for_response takes its
\* start time and sleeps the initial delay.
A_Hook(a) ==
    /\ ask[a].pc = "hook"
    /\ \E ok \in BOOLEAN :
        IF ok
        THEN ask' = [ask EXCEPT ![a].pc = "poll", ![a].calls = @ + 1,
                                ![a].upstream = Append(@, "hooks/agent"),
                                ![a].elapsed = INITIAL_DELAY]
        ELSE ask' = [ask EXCEPT ![a].pc = "done", ![a].calls = @ + 1,
                                ![a].upstream = Append(@, "hooks/agent"),
                                ![a].resp = Response(500, FALSE, "", 861)]
    /\ UNCHANGED << threads, TASKS, child, sup, disp, canc, call, locks, thr, tail >>

\* A variant whose loop still runs when the timeout has just elapsed.
A_Poll_ClosedDeadline(a) ==
    /\ ask[a].pc = "poll"
    /\ IF ask[a].elapsed <= ask[a].timeout_seconds
       THEN \E reply \in BOOLEAN :
               IF reply
               THEN ask' = [ask EXCEPT ![a].pc = "done", ![a].calls = @ + 1,
                                       ![a].upstream = Append(@, "sessions_history"),
                                       ![a].resp = Response(200, TRUE, "", 891)]
               ELSE ask' = [ask EXCEPT ![a].calls = @ + 1,
                                       ![a].upstream = Append(@, "sessions_history"),
                                       ![a].elapsed = @ + POLL_INTERVAL]
       ELSE A_Respond(a, 504, 897)
    /\ UNCHANGED << threads, TASKS, child, sup, disp, canc, call, locks, thr, tail >>

\* One iteration of the loop of poll_for_response: the test of the elapsed
\* time, get_session_history, and the sleep when there is no reply yet.
A_Poll(a) ==
    /\ ask[a].pc = "poll"
    /\ IF ask[a].elapsed < ask[a].timeout_seconds
       THEN \E reply \in BOOLEAN :
               IF reply
               THEN ask' = [ask EXCEPT ![a].pc = "done", ![a].calls = @ + 1,
                                       ![a].upstream = Append(@, "sessions_history"),
                                       ![a].resp = Response(200, TRUE, "", 891)]
               ELSE ask' = [ask EXCEPT ![a].calls = @ + 1,
                                       ![a].upstream = Append(@, "sessions_history"),
                                       ![a].elapsed = @ + POLL_INTERVAL]
       ELSE A_Respond(a, 504, 897)
    /\ UNCHANGED << threads, TASKS, child, sup, disp, canc, call, locks, thr, tail >>

\* A variant that polls the history when sessions_send carried no reply.
A_Send_ThenPolls(a) ==
    /\ ask[a].pc = "send"
    /\ \E ok \in BOOLEAN, reply \in BOOLEAN :
        IF ok /\ ~ reply
        THEN ask' = [ask EXCEPT ![a].pc = "poll", ![a].calls = @ + 1,
                                ![a].upstream = Append(@, "sessions_send"),
                                ![a].elapsed = INITIAL_DELAY]
        ELSE ask' = [ask EXCEPT ![a].pc = "done", ![a].calls = @ + 1,
                                ![a].upstream = Append(@, "sessions_send"),
                                ![a].resp = IF ~ ok THEN Response(500, FALSE, "", 880)
                                            ELSE Response(200, TRUE, "", 891)]
    /\ UNCHANGED << threads, TASKS, child, sup, disp, canc, call, locks, thr, tail >>

\* continue_thread: one upstream call that carries the reply.
A_Send(a) ==
    /\ ask[a].pc = "send"
    /\ \E ok \in BOOLEAN, reply \in BOOLEAN :
        ask' = [ask EXCEPT ![a].pc = "done", ![a].calls = @ + 1,
                           ![a].upstream = Append(@, "sessions_send"),
                           ![a].resp = IF ~ ok THEN Response(500, FALSE, "", 880)
                                       ELSE IF reply THEN Response(200, TRUE, "", 891)
                                       ELSE Response(504, FALSE, "", 897)]
    /\ UNCHANGED << threads, TASKS, child, sup, disp, canc, call, locks, thr, tail >>

\* ----------------------------------------------------------- GET /tasks
\* A key of a TaskRecord is written as its first character and the rest.
k_taskId == << "t", "askId" >>
k_status == << "s", "tatus" >>
k_startedAt == << "s", "tartedAt" >>
k_pid == << "p", "id" >>
k_thread == << "_", "thread" >>
k_process == << "_", "process" >>
k_cancel_requested == << "c", "ancel_requested" >>

startswith(k, c) == k[1] = c

Get(dict, k, default) == IF k \in DOMAIN dict THEN dict[k] ELSE default

\* list.sort(key = startedAt): a stable sort.
RECURSIVE Insert(_, _)
Insert(sorted, item) ==
    IF Len(sorted) = 0 THEN << item >>
    ELSE IF Get(item, k_startedAt, 0) < Get(Head(sorted), k_startedAt, 0)
    THEN << item >> \o sorted
    ELSE << Head(sorted) >> \o Insert(Tail(sorted), item)

RECURSIVE Sort(_, _)
Sort(sorted, rest) ==
    IF Len(rest) = 0 THEN sorted
    ELSE Sort(Insert(sorted, Head(rest)), Tail(rest))

Listed(task) == Get(task, k_status, "None") \in {"running", "canceling"}

\* A variant that hides the process handle alone.
Public_HidesProcessOnly(task) ==
    [k \in { k \in DOMAIN task : k # k_process } |-> task[k]]

Public(task) ==
    [k \in { k \in DOMAIN task : ~ startswith(k, "_") /\ k # k_cancel_requested }
        |-> task[k]]

\* The body of GET /tasks on the values of the registry, in insertion order.
list_tasks(values) ==
    LET listed == SelectSeq(values, Listed)
        tasks == [i \in 1..Len(listed) |-> Public(listed[i])]
    IN  Sort(<< >>, tasks)

\* ----------------------------------------- the calls of the pure functions
\* The TaskRecords of the registry handed to the listing, each at some stage
\* of its life.
TaskDict(id, status, startedAt, extras) ==
    [k \in {k_taskId, k_status, k_startedAt} \cup extras |->
        IF k = k_taskId THEN id
        ELSE IF k = k_status THEN status
        ELSE IF k = k_startedAt THEN startedAt
        ELSE IF k = k_pid THEN 4000 + id
        ELSE IF k = k_cancel_requested THEN TRUE
        ELSE IF k = k_thread THEN "Thread" ELSE "Popen"]
TaskStages ==
    { [status |-> status, startedAt |-> startedAt, extras |-> extras] :
        status \in {"running", "canceling", "completed"},
        startedAt \in {1, 2},
        extras \in { {k_thread}, {k_thread, k_process, k_pid},
                     {k_thread, k_process, k_pid, k_cancel_requested} } }
\* The listing is called on the registry built so far, at first empty.
ListCall == [fn |-> "list_tasks", done |-> FALSE, args |-> << >>, result |-> << >>]

\* The verifications: a timestamp around the current time or no integer,
\* signed with the secret, with another key, or carrying the digest of
\* another timestamp.
TimestampInputs ==
    { BadTimestamp } \cup { Timestamp(v) : v \in (Now - MaxSkew)..(Now + MaxSkew) }
VerifyCalls ==
    { [fn |-> "verify_hmac_signature", done |-> FALSE,
       args |-> [payload |-> Body, timestamp |-> timestamp,
                 signature |-> IF signer = "replay"
                               THEN Mac("k1", Timestamp(Now), Body)
                               ELSE Mac(signer, timestamp, Body),
                 secret |-> "k1", now |-> Now],
       result |-> << >>] :
        timestamp \in TimestampInputs, signer \in {"k1", "k2", "replay"} }

\* The functions of entries are called on the thread built so far, at first
\* empty; an entry carries under "turn" an integer, a string or nothing, and
\* its content tells it from the other entries.
TurnInputs ==
    { JInt(1), JInt(2), JInt(3), JStr(<< "3" >>), JStr(<< "x" >>), JNone }
EntriesCalls ==
    { [fn |-> "next_turn_number", done |-> FALSE,
       args |-> [entries |-> << >>, max_turns |-> 0], result |-> << >>] }
    \cup { [fn |-> "filter_entries_for_prompt", done |-> FALSE,
            args |-> [entries |-> << >>, max_turns |-> max_turns],
            result |-> << >>] : max_turns \in (-1)..MaxTurnsArg }

\* The threadId is validated as the three endpoints receive it: a JSON value
\* of the payload of /dispatch and /ask, the rest of the path of
\* GET /thread/<id>.  A string is built character by character.
CharInputs == { "t", "1", ".", "-", "_", "/", "\\", " " }
ThreadIdCalls ==
    { [fn |-> "validate_thread_id", done |-> FALSE,
       args |-> [thread_id |-> value], result |-> << >>] :
        value \in { JStr(<< >>), JInt(5), JNone } }

\* A request body: a Content-Length, absent, no number, or a number around 0
\* and around 1 MiB, with the bytes the client sends before it ends the
\* stream; or a chunked body, built chunk by chunk.
SizeInputs ==
    { 0, 1, MAX_REQUEST_SIZE - 1, MAX_REQUEST_SIZE, MAX_REQUEST_SIZE + 1 }
BodyCalls ==
    { [fn |-> "read_raw_body", done |-> FALSE,
       args |-> [chunked |-> FALSE, content_length |-> content_length,
                 sent |-> sent, chunks |-> << >>],
       result |-> << >>] :
        content_length \in { NoHeader, BadNumber, Number(-1) }
                             \cup { Number(n) : n \in SizeInputs },
        sent \in SizeInputs }
    \cup { [fn |-> "read_raw_body", done |-> FALSE,
            args |-> [chunked |-> TRUE, content_length |-> NoHeader,
                      sent |-> 0, chunks |-> << >>],
            result |-> << >>] }

\* A delivery to /github-webhook: with or without a webhook secret on the
\* server, a signature made with that secret, with another key, over another
\* payload or with another prefix, or none; a body that is JSON or not, of a
\* declared length that is no number, too large, zero or the length of the
\* payload; on a server with or without the secret of the other endpoints.
WebhookCalls ==
    { [fn |-> "handle_github_webhook", done |-> FALSE,
       args |-> [content_length |-> content_length, payload |-> Body,
                 json_ok |-> json_ok, github_secret |-> github_secret,
                 signature |-> signature, auth_secret |-> auth_secret],
       result |-> << >>] :
        content_length \in { NoHeader, BadNumber, Number(4),
                             Number(MAX_REQUEST_SIZE + 1) },
        json_ok \in BOOLEAN,
        github_secret \in { "None", "g1" },
        signature \in { NoGithubSignature,
                        GithubSignature("sha256=", "g1", Body),
                        GithubSignature("sha256=", "g1", ""),
                        GithubSignature("sha256=", "g2", Body),
                        GithubSignature("sha256=", "k1", Body),
                        GithubSignature("sha256=", "None", Body),
                        GithubSignature("sha1=", "g1", Body) },
        auth_secret \in { "", "k1" } }

InitCall ==
    /\ InitServer
    /\ call \in { ListCall } \cup VerifyCalls \cup EntriesCalls \cup ThreadIdCalls
                 \cup BodyCalls \cup WebhookCalls

\* One more TaskRecord in the registry, after the ones created before it.
Call_put_task ==
    /\ call.fn = "list_tasks" /\ ~ call.done
    /\ Len(call.args) < MaxListed
    /\ \E stage \in TaskStages :
        call' = [call EXCEPT !.args =
                    Append(@, TaskDict(Len(@) + 1, stage.status, stage.startedAt,
                                       stage.extras))]
    /\ UNCHANGED << threads, TASKS, child, sup, disp, canc, ask, locks, thr, tail >>

\* One more entry in the thread file, after the ones written before it.
Call_put_entry ==
    /\ call.fn \in {"next_turn_number", "filter_entries_for_prompt"} /\ ~ call.done
    /\ Len(call.args.entries) < MaxEntries
    /\ \E turn \in TurnInputs :
        call' = [call EXCEPT !.args.entries =
                    Append(@, [turn |-> turn, role |-> EDI,
                               content |-> ToString(Len(@) + 1),
                               exitCode |-> NoCode, task |-> 0])]
    /\ UNCHANGED << threads, TASKS, child, sup, disp, canc, ask, locks, thr, tail >>

Call_next_turn_number ==
    /\ call.fn = "next_turn_number" /\ ~ call.done
    /\ call' = [call EXCEPT !.done = TRUE,
                            !.result = next_turn_number(call.args.entries)]
    /\ UNCHANGED << threads, TASKS, child, sup, disp, canc, ask, locks, thr, tail >>

Call_filter_entries_for_prompt ==
    /\ call.fn = "filter_entries_for_prompt" /\ ~ call.done
    /\ call' = [call EXCEPT !.done = TRUE,
                            !.result = filter_entries_for_prompt(
                                call.args.entries, call.args.max_turns)]
    /\ UNCHANGED << threads, TASKS, child, sup, disp, canc, ask, locks, thr, tail >>

\* One more character in the threadId.
Call_put_char ==
    /\ call.fn = "validate_thread_id" /\ ~ call.done
    /\ call.args.thread_id.kind = "str"
    /\ Len(call.args.thread_id.str) < MaxIdLen
    /\ \E c \in CharInputs :
        call' = [call EXCEPT !.args.thread_id.str = Append(@, c)]
    /\ UNCHANGED << threads, TASKS, child, sup, disp, canc, ask, locks, thr, tail >>

\* The validation, and what each endpoint answers to the same threadId.
Call_validate_thread_id ==
    /\ call.fn = "validate_thread_id" /\ ~ call.done
    /\ LET thread_id == call.args.thread_id
       IN  call' = [call EXCEPT
                !.done = TRUE,
                !.result = [validated |-> validate_thread_id(thread_id),
                            dispatch |-> dispatch_threadId(thread_id),
                            ask |-> ask_threadId(thread_id),
                            get_thread |-> IF thread_id.kind = "str"
                                           THEN get_thread_threadId(thread_id.str)
                                           ELSE ThreadIdOutcome(0, "None")]]
    /\ UNCHANGED << threads, TASKS, child, sup, disp, canc, ask, locks, thr, tail >>

\* One more chunk-size line, and the chunk of that size, in the stream.
Call_put_chunk ==
    /\ call.fn = "read_raw_body" /\ ~ call.done
    /\ call.args.chunked
    /\ Len(call.args.chunks) < MaxChunks
    /\ \E chunk_size \in { BadNumber } \cup { Number(n) : n \in SizeInputs } :
        call' = [call EXCEPT !.args.chunks = Append(@, chunk_size)]
    /\ UNCHANGED << threads, TASKS, child, sup, disp, canc, ask, locks, thr, tail >>

Call_read_raw_body ==
    /\ call.fn = "read_raw_body" /\ ~ call.done
    /\ call' = [call EXCEPT !.done = TRUE,
                            !.result = read_raw_body(
                                call.args.chunked, call.args.content_length,
                                call.args.sent, call.args.chunks)]
    /\ UNCHANGED << threads, TASKS, child, sup, disp, canc, ask, locks, thr, tail >>

\* The webhook handler answers, or has verified the delivery and is about
\* to trigger the agent-hook.
Call_webhook_verify ==
    /\ call.fn = "handle_github_webhook" /\ ~ call.done /\ call.result = << >>
    /\ LET a == call.args
           line == webhook_verify(a.content_length, a.payload, a.json_ok,
                                  a.github_secret, a.signature).line
       IN  call' = [call EXCEPT
                !.done = (line # 0),
                !.result = [code |-> IF line # 0 THEN WebhookCode(line) ELSE 0,
                            line |-> line, upstream |-> 0]]
    /\ UNCHANGED << threads, TASKS, child, sup, disp, canc, ask, locks, thr, tail >>

\* trigger_agent_hook: one upstream call, answered ok or not.
Call_webhook_hook ==
    /\ call.fn = "handle_github_webhook" /\ ~ call.done /\ call.result # << >>
    /\ \E ok \in BOOLEAN :
        LET line == IF ok THEN 1171 ELSE 1180
        IN  call' = [call EXCEPT
                !.done = TRUE,
                !.result = [code |-> WebhookCode(line), line |-> line,
                            upstream |-> call.result.upstream + 1]]
    /\ UNCHANGED << threads, TASKS, child, sup, disp, canc, ask, locks, thr, tail >>

Call_list_tasks ==
    /\ call.fn = "list_tasks" /\ ~ call.done
    /\ call' = [call EXCEPT !.done = TRUE, !.result = list_tasks(call.args)]
    /\ UNCHANGED << threads, TASKS, child, sup, disp, canc, ask, locks, thr, tail >>

Call_verify_hmac_signature ==
    /\ call.fn = "verify_hmac_signature" /\ ~ call.done
    /\ call' = [call EXCEPT !.done = TRUE,
                            !.result = verify_hmac_signature(
                                call.args.payload, call.args.timestamp,
                                call.args.signature, call.args.secret, call.args.now)]
    /\ UNCHANGED << threads, TASKS, child, sup, disp, canc, ask, locks, thr, tail >>

\* -------------------------------------------------- threads and locks
\* The threads of one accepted /dispatch on thread t1, of a cancel, of the
\* two GET endpoints and of the supervisor, at the grain of their lock
\* operations.  A thread file is the whole lines in threads and, while a
\* write is under way, the cut line in tail.
LockThread == "t1"

Here(w) == Ops(w)[thr[w].pc]
At(w, op) == thr[w].pc \in 1..Len(Ops(w)) /\ Here(w).op = op
Finished(w) == thr[w].pc > Len(Ops(w))
Holds(w) == { l \in Locks : locks[l] = w }

\* path.read_text().splitlines(): the lines of the file as it is now.
read_text(thread_id) ==
    [i \in 1..Len(threads[thread_id]) |-> Line(threads[thread_id][i], TRUE)]
    \o [i \in 1..Len(tail[thread_id]) |-> Line(tail[thread_id][i], FALSE)]

\* The loop of load_thread_entries: a line that json.loads rejects is
\* skipped, and a line cut short is no JSON document.
IsJson(line) == line.whole
json_lines(lines) ==
    LET kept == SelectSeq(lines, IsJson)
    IN  [i \in 1..Len(kept) |-> kept[i].entry]

\* The entry a thread appends: the handler its edi entry, on the turn it
\* computed from what it loaded, the supervisor the agent entry of that turn.
EntryOf(w) ==
    IF w = "dispatch"
    THEN Entry(next_turn_number(thr[w].entries), EDI, "build it", NoCode, 1)
    ELSE Entry(next_turn_number(thr["dispatch"].entries), "codex", "done", 0, 1)

L_Acquire(w) ==
    /\ At(w, "acquire")
    /\ locks[Here(w).lock] = NoWorker
    /\ locks' = [locks EXCEPT ![Here(w).lock] = w]
    /\ thr' = [thr EXCEPT ![w].pc = @ + 1]
    /\ UNCHANGED << threads, TASKS, child, sup, disp, canc, ask, call, tail >>

L_Release(w) ==
    /\ At(w, "release")
    /\ locks' = [locks EXCEPT ![Here(w).lock] = NoWorker]
    /\ thr' = [thr EXCEPT ![w].pc = @ + 1]
    /\ UNCHANGED << threads, TASKS, child, sup, disp, canc, ask, call, tail >>

L_Read(w) ==
    /\ At(w, "read")
    /\ thr' = [thr EXCEPT ![w].pc = @ + 1,
                          ![w].entries = json_lines(read_text(LockThread)),
                          ![w].loaded = TRUE]
    /\ UNCHANGED << threads, TASKS, child, sup, disp, canc, ask, call, locks, tail >>

\* handle.write(line + "\n") on a buffered file: the line stays in the
\* buffer, or a first piece of it reaches the file at once.
L_Write(w) ==
    /\ At(w, "write")
    /\ \E piece \in BOOLEAN :
         tail' = [tail EXCEPT ![LockThread] = IF piece THEN << EntryOf(w) >> ELSE << >>]
    /\ thr' = [thr EXCEPT ![w].pc = @ + 1]
    /\ UNCHANGED << threads, TASKS, child, sup, disp, canc, ask, call, locks >>

\* Leaving the with-block of open() flushes what is left of the line.
L_Close(w) ==
    /\ At(w, "close")
    /\ append_thread_entry(LockThread, EntryOf(w))
    /\ tail' = [tail EXCEPT ![LockThread] = << >>]
    /\ thr' = [thr EXCEPT ![w].pc = @ + 1]
    /\ UNCHANGED << TASKS, child, sup, disp, canc, ask, call, locks >>

\* thread.start(): the supervisor begins.
L_Start(w) ==
    /\ At(w, "start")
    /\ thr' = [thr EXCEPT ![w].pc = @ + 1, !["run_dispatch_task"].pc = 1]
    /\ UNCHANGED << threads, TASKS, child, sup, disp, canc, ask, call, locks, tail >>

\* process.communicate() returns: the child has exited, or the timeout has
\* passed and the child was killed.
L_Wait(w) ==
    /\ At(w, "wait")
    /\ thr' = [thr EXCEPT ![w].pc = @ + 1]
    /\ UNCHANGED << threads, TASKS, child, sup, disp, canc, ask, call, locks, tail >>

L_Sleep(w) ==
    /\ At(w, "sleep")
    /\ thr' = [thr EXCEPT ![w].pc = @ + 1,
                          ![w].slept = @ + DISPATCH_EARLY_CHECK_SECONDS]
    /\ UNCHANGED << threads, TASKS, child, sup, disp, canc, ask, call, locks, tail >>

\* send_dispatch_callback, process.terminate() and _send_json.
L_Upstream(w) ==
    /\ At(w, "upstream")
    /\ thr' = [thr EXCEPT ![w].pc = @ + 1]
    /\ UNCHANGED << threads, TASKS, child, sup, disp, canc, ask, call, locks, tail >>

L_Signal(w) ==
    /\ At(w, "signal")
    /\ thr' = [thr EXCEPT ![w].pc = @ + 1]
    /\ UNCHANGED << threads, TASKS, child, sup, disp, canc, ask, call, locks, tail >>

L_Respond(w) ==
    /\ At(w, "respond")
    /\ thr' = [thr EXCEPT ![w].pc = @ + 1]
    /\ UNCHANGED << threads, TASKS, child, sup, disp, canc, ask, call, locks, tail >>

\* ------------------------------------------------------- specifications
Next ==
    \/ \E r \in DispatchIds :
        D_Reject(r) \/ D_Load(r) \/ D_Append(r) \/ D_Create(r)
        \/ D_Snapshot(r) \/ D_Poll(r)
    \/ \E t \in TaskIds :
        S_Spawn(t) \/ S_Register(t) \/ S_Communicate(t) \/ S_Timeout(t)
        \/ S_Append(t) \/ S_Final(t) \/ Child_Exit(t)
    \/ \E k \in CancelIds : K_Lookup(k) \/ K_Set(k) \/ K_Signal(k)

Spec == Init /\ [][Next]_vars

\* One request of each kind: the three authenticated endpoints side by side.
AskNext ==
    \/ D_Reject(1) \/ D_Load(1) \/ D_Append(1) \/ D_Create(1)
    \/ D_Snapshot(1) \/ D_Poll(1)
    \/ S_Spawn(1) \/ S_Register(1) \/ S_Communicate(1) \/ S_Timeout(1)
    \/ S_Append(1) \/ S_Final(1) \/ Child_Exit(1)
    \/ K_Lookup(1) \/ K_Set(1) \/ K_Signal(1)
    \/ \E a \in AskIds : A_Receive(a) \/ A_Hook(a) \/ A_Poll(a) \/ A_Send(a)

AskSpec == Init /\ [][AskNext]_vars

\* The handler thread of an /ask request keeps running: its upstream calls
\* return (make_request has a timeout of 15 s) and its sleeps end.
AskLiveSpec ==
    AskSpec /\ \A a \in AskIds : WF_vars(A_Hook(a) \/ A_Poll(a) \/ A_Send(a))

\* One dispatch that may carry a callback, and one cancel.
CallbackNext ==
    \/ D_Reject(1) \/ D_RejectPayload(1) \/ D_Load(1) \/ D_LoadWithCallback(1)
    \/ D_Append(1) \/ D_Create(1) \/ D_Snapshot(1) \/ D_Poll(1)
    \/ S_Spawn(1) \/ S_Register(1) \/ S_Communicate(1) \/ S_Timeout(1)
    \/ S_Append(1) \/ S_Final(1) \/ S_Callback(1) \/ Child_Exit(1)
    \/ K_Lookup(1) \/ K_Set(1) \/ K_Signal(1)

CallbackSpec == Init /\ [][CallbackNext]_vars

\* The lock operations of the five threads, interleaved; the thread files
\* start empty.
InitLock ==
    /\ Init
    /\ threads = [th \in ThreadIds |-> << >>]

\* What a thread does without waiting for the child.
Run(w) ==
    \/ L_Acquire(w) \/ L_Release(w) \/ L_Read(w) \/ L_Write(w) \/ L_Close(w)
    \/ L_Start(w) \/ L_Sleep(w) \/ L_Upstream(w) \/ L_Signal(w) \/ L_Respond(w)

LockNext == \E w \in Workers : Run(w) \/ L_Wait(w)

LockSpec == InitLock /\ [][LockNext]_vars

\* The scheduler runs every thread that can run; a sleep, an upstream call
\* and an answer end on their own.  Nothing makes the child exit.
LockLiveSpec == LockSpec /\ \A w \in Workers : WF_vars(Run(w))

\* One call of a pure function on arguments drawn from bounded sets, the
\* listing on a registry of up to MaxListed records.
CallNext ==
    \/ Call_put_task \/ Call_list_tasks \/ Call_verify_hmac_signature
    \/ Call_put_entry \/ Call_next_turn_number \/ Call_filter_entries_for_prompt
    \/ Call_put_char \/ Call_validate_thread_id
    \/ Call_put_chunk \/ Call_read_raw_body
    \/ Call_webhook_verify \/ Call_webhook_hook

CallSpec == InitCall /\ [][CallNext]_vars

\* --------------------------------------------------------------- claims
\* The entries of any thread file that task t wrote (history field task).
EntriesOf(t) ==
    { << th, i >> \in ThreadIds \X (1..(2 * MaxDispatch + Len(MixedHistory))) :
        i <= Len(threads[th]) /\ threads[th][i].task = t }
EntryAt(p) == threads[p[1]][p[2]]
AgentEntriesOf(t) == { p \in EntriesOf(t) : EntryAt(p).role # EDI }
EdiEntriesOf(t) == { p \in EntriesOf(t) : EntryAt(p).role = EDI }
Mixed(entries) == Cardinality(AgentRoles(entries)) > 1
Created(t) == t \in DOMAIN TASKS

\* C1: once the status of a TaskRecord is completed, failed or canceled, no
\* step changes it.
C1_TerminalStatusIsFinal ==
    [][\A t \in DOMAIN TASKS :
          TASKS[t].status \in TerminalStatus => TASKS'[t].status = TASKS[t].status]_vars

\* C2: every task writes at most one agent entry, with the task's agent as
\* its role and into the task's thread; the entry is there once the
\* supervisor has passed its append, hence whenever the task is terminal.
C2_ExactlyOneAgentEntry ==
    \A t \in TaskIds :
        /\ Cardinality(AgentEntriesOf(t)) <= 1
        /\ \A p \in AgentEntriesOf(t) :
              /\ Created(t)
              /\ p[1] = TASKS[t].threadId
              /\ EntryAt(p).role = TASKS[t].agent
        /\ (sup[t].pc \in {"final", "done"}
            \/ (Created(t) /\ TASKS[t].status \in TerminalStatus))
           => Cardinality(AgentEntriesOf(t)) = 1

\* A canceled task, a task whose child could not be spawned and a task that
\* timed out have each written their entry.
C2_Witness ==
    \E t \in DOMAIN TASKS :
        /\ TASKS[t].status = "canceled"
        /\ Cardinality(AgentEntriesOf(t)) = 1
        /\ \E u \in DOMAIN TASKS :
              /\ TASKS[u].error \in {"spawn", "timeout"}
              /\ Cardinality(AgentEntriesOf(u)) = 1

\* C3: a task for which a cancel request was answered "canceling" ends with
\* status canceled: once its supervisor has finished, that is its status.
C3_CancelRequestedEndsCanceled ==
    \A k \in CancelIds :
        (/\ canc[k].pc = "done"
         /\ canc[k].resp.code = 200
         /\ canc[k].resp.status = "canceling"
         /\ sup[canc[k].task_id].pc = "done")
        => TASKS[canc[k].task_id].status = "canceled"

\* C4: after a cancel request for a running task was accepted and answered
\* (line 1085), a child of the task that still runs has been sent
\* terminate().
C4_AcceptedCancelSignalsChild ==
    \A k \in CancelIds :
        (canc[k].resp.line = 1085 /\ child[canc[k].task_id].state = "running")
        => child[canc[k].task_id].terms >= 1

\* C5: the cancel requests for one task send its child at most one
\* termination signal.
C5_AtMostOneSignal ==
    \A t \in TaskIds : child[t].terms <= 1

\* C6: a task in status canceling becomes canceled.  The supervisor is the
\* only thread that sets canceled, in its last step: a task that is
\* canceling when its supervisor has finished stays so for ever.
C6_CancelingIsLeft ==
    \A t \in DOMAIN TASKS :
        sup[t].pc = "done" => TASKS[t].status # "canceling"

\* C7: no step turns a thread file with at most one agent-kind into one with
\* two or more.
C7_NeverBecomesMixed ==
    [][\A th \in ThreadIds : ~ Mixed(threads[th]) => ~ Mixed(threads'[th])]_vars

\* C8: a /dispatch request that finds its thread mixed, or bound to another
\* agent than the one it asks for, is answered 400 in the step that loads
\* the thread, and that step changes nothing else; a request answered 400
\* has written no entry, created no task and spawned no child.
Conflict(entries, agent) ==
    \/ Mixed(entries)
    \/ AgentRoles(entries) # {} /\ AgentRoles(entries) # {agent}

C8_ConflictRejectedWithoutEffect ==
    /\ [][\A r \in DispatchIds :
            (/\ disp[r].pc = "idle"
             /\ disp'[r].pc # "idle"
             /\ disp'[r].thread_id \in ThreadIds
             /\ Conflict(threads[disp'[r].thread_id], disp'[r].agent))
            => /\ disp'[r].pc = "done"
               /\ disp'[r].resp.code = 400
               /\ UNCHANGED << threads, TASKS, child, sup >>]_vars
    /\ [](\A r \in DispatchIds :
            disp[r].resp.code = 400
            => /\ EntriesOf(r) = {}
               /\ ~ Created(r)
               /\ child[r].state = "none"
               /\ sup[r].pc = "idle")

\* A request for claude on a thread that a finished codex task has bound, is
\* rejected with "Thread already bound to codex".
C8_Witness ==
    \E r \in DispatchIds :
        /\ disp[r].resp.line = 961
        /\ disp[r].agent = "claude"
        /\ AgentRoles(threads[disp[r].thread_id]) = {"codex"}

\* C9: in every thread file the turns are non-decreasing in file order.
C9_TurnsNonDecreasing ==
    \A th \in ThreadIds :
        \A i, j \in 1..Len(threads[th]) :
            i < j => threads[th][i].turn.int <= threads[th][j].turn.int

\* C10: a request writes at most one edi entry; from the moment it has
\* passed its append, so when its task exists and when its response is sent,
\* its thread holds exactly one edi entry of it, with the request's message.
Accepted(r) ==
    \/ disp[r].pc \in {"create", "sleep", "poll"}
    \/ disp[r].pc = "done" /\ disp[r].resp.code \notin {400, 401}
    \/ Created(r)

C10_OneEdiEntryBeforeResponse ==
    \A r \in DispatchIds :
        /\ Cardinality(EdiEntriesOf(r)) <= 1
        /\ \A p \in EdiEntriesOf(r) :
              /\ p[1] = disp[r].thread_id
              /\ EntryAt(p).content = disp[r].message
        /\ Accepted(r) => Cardinality(EdiEntriesOf(r)) = 1

\* An accepted request has been answered and its edi entry is in the file.
C10_Witness ==
    \E r \in DispatchIds :
        /\ disp[r].pc = "done"
        /\ disp[r].resp.code = 200
        /\ Cardinality(EdiEntriesOf(r)) = 1

\* C11: the edi entry of a dispatch is in its thread file, with the request's
\* message, whenever the TaskRecord of the dispatch exists, its supervisor
\* has been started or its child has been spawned.
C11_EdiEntryBeforeTaskAndChild ==
    \A t \in TaskIds :
        (Created(t) \/ sup[t].pc # "idle" \/ child[t].state # "none")
        => \E p \in EdiEntriesOf(t) :
              /\ EdiEntriesOf(t) = {p}
              /\ p[1] = disp[t].thread_id
              /\ EntryAt(p).content = disp[t].message
              /\ EntryAt(p).turn = JInt(disp[t].turn)

\* The child of a task runs and the edi entry of the task is in the file.
C11_Witness ==
    \E t \in DOMAIN TASKS :
        /\ child[t].state = "running"
        /\ Cardinality(EdiEntriesOf(t)) = 1

\* C12: when the status of a TaskRecord is completed, failed or canceled,
\* the agent entry of the task is in its thread file, with the exit code the
\* record carries.
C12_AgentEntryBeforeTerminal ==
    \A t \in DOMAIN TASKS :
        TASKS[t].status \in TerminalStatus
        => \E p \in AgentEntriesOf(t) :
              /\ p[1] = TASKS[t].threadId
              /\ EntryAt(p).role = TASKS[t].agent
              /\ EntryAt(p).exitCode = TASKS[t].exitCode

\* A completed task whose agent entry carries exit code 0.
C12_Witness ==
    \E t \in DOMAIN TASKS :
        /\ TASKS[t].status = "completed"
        /\ \E p \in AgentEntriesOf(t) : EntryAt(p).exitCode = 0

\* C13: the response to an accepted dispatch carries the status running,
\* completed, failed or canceled; it is 500 with ok = false when the status
\* is failed, and 200 with ok = true otherwise.
C13_ResponseStatusAndCode ==
    \A r \in DispatchIds :
        (disp[r].pc = "done" /\ disp[r].resp.code \in {200, 500})
        => /\ disp[r].resp.status \in {"running"} \cup TerminalStatus
           /\ disp[r].resp.code = 500 <=> disp[r].resp.status = "failed"
           /\ disp[r].resp.ok <=> disp[r].resp.code = 200

\* C14: the step that answers a dispatch after the early-completion wait
\* does not answer running when the child of the task has already exited.
C14_ExitedChildNotReportedRunning ==
    [][\A r \in DispatchIds :
          (/\ disp[r].pc \in {"sleep", "poll"}
           /\ disp'[r].pc = "done"
           /\ DISPATCH_EARLY_CHECK_SECONDS > 0
           /\ child[r].state = "exited")
          => disp'[r].resp.status # "running"]_vars

\* C15: a task for which no cancel was requested, once its supervisor has
\* finished, is failed when an exception or the timeout occurred, otherwise
\* completed for exit code 0 and failed for any other exit code.
C15_FinalStatusWithoutCancel ==
    \A t \in DOMAIN TASKS :
        (sup[t].pc = "done" /\ ~ TASKS[t].cancel_requested)
        => TASKS[t].status =
              IF sup[t].error # "" THEN "failed"
              ELSE IF child[t].code = 0 THEN "completed"
              ELSE "failed"

\* A task whose child could not be spawned, and a task whose child exited
\* with a code other than 0, are both failed.
C15_Witness ==
    \E t \in DOMAIN TASKS :
        /\ sup[t].pc = "done" /\ ~ TASKS[t].cancel_requested
        /\ sup[t].error = "spawn" /\ TASKS[t].status = "failed"
        /\ \E u \in DOMAIN TASKS :
              /\ sup[u].pc = "done" /\ ~ TASKS[u].cancel_requested
              /\ sup[u].error = "" /\ child[u].code = 2

C17_CancelOfTerminalTaskChangesNothing ==
    /\ [][\A k \in CancelIds :
            (/\ canc[k].pc = "idle"
             /\ canc'[k].pc # "idle"
             /\ canc'[k].task_id \in DOMAIN TASKS
             /\ TASKS[canc'[k].task_id].status \in TerminalStatus)
            => /\ canc'[k].pc = "done"
               /\ canc'[k].resp.code = 200
               /\ canc'[k].resp.status = TASKS[canc'[k].task_id].status
               /\ ~ canc'[k].process
               /\ UNCHANGED << threads, TASKS, child, sup >>]_vars
    /\ [](\A k \in CancelIds : canc[k].resp.line = 1069 => canc[k].pc = "done")

\* A cancel request for a completed task was answered with "completed".
C17_Witness ==
    \E k \in CancelIds :
        /\ canc[k].resp.line = 1069
        /\ canc[k].resp.status = "completed"
        /\ TASKS[canc[k].task_id].status = "completed"

\* C18: GET /tasks returns the records of the registry whose status is
\* running or canceling, each once and no other, with the keys and values of
\* the record except the keys that start with an underscore and
\* cancel_requested, in ascending order of startedAt.
C18_ListingIsFilteredSortedPublic ==
    (call.fn = "list_tasks" /\ call.done)
    => LET values == call.args
           tasks == call.result
           shown == { i \in 1..Len(values) :
                        values[i][k_status] \in {"running", "canceling"} }
       IN  /\ Len(tasks) = Cardinality(shown)
           /\ \A i \in shown :
                \E j \in 1..Len(tasks) :
                    /\ tasks[j][k_taskId] = values[i][k_taskId]
                    /\ DOMAIN tasks[j] =
                          { k \in DOMAIN values[i] :
                                k[1] # "_" /\ k # k_cancel_requested }
                    /\ \A k \in DOMAIN tasks[j] : tasks[j][k] = values[i][k]
           /\ \A j \in 1..Len(tasks) :
                /\ \E i \in shown : tasks[j][k_taskId] = values[i][k_taskId]
                /\ \A k \in DOMAIN tasks[j] : k[1] # "_" /\ k # k_cancel_requested
           /\ \A i, j \in 1..Len(tasks) :
                i < j => tasks[i][k_startedAt] <= tasks[j][k_startedAt]

\* Of three records the completed one is left out and the two others, which
\* carry handles and the cancel flag, are returned in the other order.
C18_Witness ==
    /\ call.fn = "list_tasks" /\ call.done
    /\ Len(call.args) = 3 /\ Len(call.result) = 2
    /\ call.args[1][k_status] = "canceling" /\ call.args[1][k_startedAt] = 2
    /\ k_cancel_requested \in DOMAIN call.args[1]
    /\ call.args[2][k_status] = "completed"
    /\ call.args[3][k_status] = "running" /\ call.args[3][k_startedAt] = 1
    /\ k_process \in DOMAIN call.args[3]
    /\ call.result[1][k_taskId] = 3

\* C19: a request to /ask, /dispatch or /tasks/<id>/cancel that arrives
\* while a secret is configured and does not carry valid credentials is
\* answered in the step that receives it (401, or 400 for an /ask without
\* message), and that step changes no thread file, no TaskRecord, no child,
\* no supervisor and no other request; such a request has written no entry,
\* created no task, read no process handle and made no upstream call.
C19_UnauthenticatedHasNoEffect ==
    /\ [][/\ \A r \in DispatchIds :
               (disp[r].pc = "idle" /\ disp'[r].pc # "idle" /\ disp'[r].unauth)
               => /\ disp'[r].pc = "done"
                  /\ disp'[r].resp.code = 401
                  /\ UNCHANGED << threads, TASKS, child, sup, canc, ask >>
          /\ \A k \in CancelIds :
               (canc[k].pc = "idle" /\ canc'[k].pc # "idle" /\ canc'[k].unauth)
               => /\ canc'[k].pc = "done"
                  /\ canc'[k].resp.code = 401
                  /\ UNCHANGED << threads, TASKS, child, sup, disp, ask >>
          /\ \A a \in AskIds :
               (ask[a].pc = "idle" /\ ask'[a].pc # "idle" /\ ask'[a].unauth)
               => /\ ask'[a].pc = "done"
                  /\ ask'[a].resp.code \in {400, 401}
                  /\ ask'[a].calls = 0
                  /\ UNCHANGED << threads, TASKS, child, sup, disp, canc >>]_vars
    /\ [](\A r \in DispatchIds :
            disp[r].unauth
            => /\ disp[r].pc = "done"
               /\ EntriesOf(r) = {}
               /\ ~ Created(r)
               /\ child[r].state = "none"
               /\ sup[r].pc = "idle")
    /\ [](\A k \in CancelIds :
            canc[k].unauth => canc[k].pc = "done" /\ ~ canc[k].process)
    /\ [](\A a \in AskIds :
            ask[a].unauth => ask[a].pc = "done" /\ ask[a].calls = 0)

\* A /dispatch without the headers, a cancel with a wrong signature and an
\* /ask with an expired timestamp or a wrong signature were each answered 401.
C19_Witness ==
    /\ disp[1].unauth /\ disp[1].resp.line = 743
    /\ canc[1].unauth /\ canc[1].resp.line = 749
    /\ ask[1].unauth /\ ask[1].resp.line = 749

\* C20: verify_hmac_signature rejects a timestamp more than 300 seconds
\* before or after the current time, whatever the signature; a timestamp
\* exactly 300 seconds away is not rejected as expired, and within the 300
\* seconds a request with the digest of its timestamp and body is valid.
C20_TimestampWindow ==
    (/\ call.fn = "verify_hmac_signature"
     /\ call.done
     /\ call.args.timestamp.kind = "int")
    => LET skew == Abs(call.args.now - call.args.timestamp.value)
           signed == call.args.signature =
                        Mac(call.args.secret, call.args.timestamp, call.args.payload)
       IN  /\ skew > 300 => ~ call.result.is_valid
           /\ skew = 300 =>
                call.result.error # "Timestamp expired (replay protection)"
           /\ (skew <= 300 /\ signed) => call.result.is_valid

\* A timestamp 301 seconds ahead, correctly signed, has been rejected.
C20_Witness ==
    /\ call.fn = "verify_hmac_signature" /\ call.done
    /\ call.args.timestamp = Timestamp(call.args.now + 301)
    /\ call.args.signature =
          Mac(call.args.secret, call.args.timestamp, call.args.payload)
    /\ ~ call.result.is_valid

\* The integer turns of a list of entries, and the turns first seen after
\* the first appearance of a turn.
IntegerTurns(entries) ==
    { entries[i].turn.int :
        i \in { j \in 1..Len(entries) : entries[j].turn.kind = "int" } }
FirstAppearance(entries, n) ==
    CHOOSE i \in 1..Len(entries) :
        /\ entries[i].turn = JInt(n)
        /\ \A j \in 1..(i - 1) : entries[j].turn # JInt(n)
LaterTurns(entries, n) ==
    { m \in IntegerTurns(entries) :
        FirstAppearance(entries, m) > FirstAppearance(entries, n) }
LastTurns(entries, k) ==
    { n \in IntegerTurns(entries) : Cardinality(LaterTurns(entries, n)) < k }

\* C25: next_turn_number returns one greater than the maximum integer turn
\* found among the entries, and 1 when the list is empty or no entry has an
\* integer turn.
C25_NextTurnIsMaxIntegerTurnPlusOne ==
    (call.fn = "next_turn_number" /\ call.done)
    => LET turns == IntegerTurns(call.args.entries)
       IN  call.result =
              IF turns = {} THEN 1
              ELSE (CHOOSE m \in turns : \A n \in turns : n <= m) + 1

\* C26: filter_entries_for_prompt(entries, k) returns nothing when k <= 0,
\* all entries when there are at most k distinct turns, and otherwise, in
\* their original order, exactly the entries whose turn is among the last k
\* distinct turn values, the turns ordered by first appearance.
C26_FilterKeepsLastTurns ==
    (call.fn = "filter_entries_for_prompt" /\ call.done)
    => LET entries == call.args.entries
           k == call.args.max_turns
       IN  call.result =
              IF k <= 0 THEN << >>
              ELSE IF Cardinality(IntegerTurns(entries)) <= k THEN entries
              ELSE SelectSeq(entries,
                      LAMBDA entry : /\ entry.turn.kind = "int"
                                     /\ entry.turn.int \in LastTurns(entries, k))

\* A thread of three turns, the oldest one seen again after the second, has
\* been cut down to its last two turns.
C26_Witness ==
    /\ call.fn = "filter_entries_for_prompt" /\ call.done
    /\ call.args.max_turns = 2
    /\ Len(call.args.entries) = 4
    /\ call.args.entries[1].turn = JInt(1)
    /\ call.args.entries[2].turn = JInt(2)
    /\ call.args.entries[3].turn = JInt(1)
    /\ call.args.entries[4].turn = JInt(3)
    /\ call.result = << call.args.entries[2], call.args.entries[4] >>

\* C27 as stated: filtering is idempotent for every list and every k, and
\* for k at least the number of distinct turns the result equals entries.
C27_FilterIdempotentAndIdentity ==
    (call.fn = "filter_entries_for_prompt" /\ call.done)
    => LET entries == call.args.entries
           k == call.args.max_turns
       IN  /\ filter_entries_for_prompt(call.result, k) = call.result
           /\ k >= Cardinality(IntegerTurns(entries)) => call.result = entries

\* C27: filtering is idempotent for every list and every k, and for k at
\* least 1 and at least the number of distinct turns the result equals
\* entries.
C27_FilterIdempotent ==
    (call.fn = "filter_entries_for_prompt" /\ call.done)
    => LET entries == call.args.entries
           k == call.args.max_turns
       IN  /\ filter_entries_for_prompt(call.result, k) = call.result
           /\ (k >= 1 /\ k >= Cardinality(IntegerTurns(entries)))
                => call.result = entries

\* A filtering that dropped entries, and one that kept a thread of as many
\* turns as max_turns together with its entry without a turn; the model
\* holds one call at a time, so the witness is the second one.
C27_Witness ==
    /\ call.fn = "filter_entries_for_prompt" /\ call.done
    /\ call.args.max_turns = 2
    /\ Cardinality(IntegerTurns(call.args.entries)) = 2
    /\ \E i \in 1..Len(call.args.entries) : call.args.entries[i].turn = JNone
    /\ call.result = call.args.entries
    /\ filter_entries_for_prompt(call.result, 2) = call.result

\* C28: validate_thread_id accepts a value exactly when it is a non-empty
\* string without "/", without a backslash, without ".." and made only of
\* the characters A-Z, a-z, 0-9, ".", "_" and "-"; every other value raises
\* the error, which /dispatch, /ask and GET /thread/<id> answer with 400.
C28_ValidThreadIds ==
    (call.fn = "validate_thread_id" /\ call.done)
    => LET thread_id == call.args.thread_id
           text == thread_id.str
           acceptable ==
              /\ thread_id.kind = "str"
              /\ Len(text) > 0
              /\ \A i \in 1..Len(text) :
                    /\ text[i] \notin { "/", "\\" }
                    /\ text[i] \in ThreadIdChars
                    /\ i < Len(text) => ~ (text[i] = "." /\ text[i + 1] = ".")
       IN  /\ call.result.validated.ok <=> acceptable
           /\ (~ acceptable /\ thread_id # JNone) =>
                /\ call.result.dispatch.line \in {932, 937}
                /\ call.result.ask.line \in {837, 842}
           /\ (~ acceptable /\ thread_id.kind = "str") =>
                call.result.get_thread.line \in {785, 790}
           /\ acceptable =>
                /\ call.result.dispatch.line = 0
                /\ call.result.ask.line = 0
                /\ call.result.get_thread.line = 0

\* An id of allowed characters with two dots in a row has been refused by
\* the validation and by the three endpoints.
C28_Witness ==
    /\ call.fn = "validate_thread_id" /\ call.done
    /\ call.args.thread_id = JStr(<< "t", ".", "." >>)
    /\ ~ call.result.validated.ok
    /\ call.result.dispatch.line = 937
    /\ call.result.ask.line = 842
    /\ call.result.get_thread.line = 790

\* The dispatch of task t went to an empty thread that no other request
\* wrote to, its child has exited with code 0 and the supervisor is through.
CompletedAlone(t) ==
    /\ Created(t)
    /\ sup[t].pc = "done"
    /\ sup[t].exit_code = 0 /\ sup[t].error = ""
    /\ \A i \in 1..Len(threads[disp[t].thread_id]) :
          threads[disp[t].thread_id][i].task = t

\* C30 as stated: after such a dispatch has completed the thread holds
\* exactly two entries: the edi entry with turn 1 and the message, then the
\* agent entry with turn 2, the output of the child and exitCode 0.
C30_AgentEntryHasTurnTwo ==
    \A t \in TaskIds :
        CompletedAlone(t) =>
            threads[disp[t].thread_id] =
                << Entry(1, EDI, disp[t].message, NoCode, t),
                   Entry(2, disp[t].agent, child[t].output, 0, t) >>

\* C30: after such a dispatch has completed the thread holds exactly two
\* entries: the edi entry with turn 1 and the message, then the agent entry
\* with the same turn 1, the output of the child and exitCode 0.
C30_TwoEntriesOfTurnOne ==
    \A t \in TaskIds :
        CompletedAlone(t) =>
            threads[disp[t].thread_id] =
                << Entry(1, EDI, disp[t].message, NoCode, t),
                   Entry(1, disp[t].agent, child[t].output, 0, t) >>

\* A dispatch to an empty thread has completed with exit code 0 and the
\* thread holds its two entries.
C30_Witness ==
    \E t \in TaskIds :
        /\ CompletedAlone(t)
        /\ TASKS[t].status = "completed"
        /\ Len(threads[disp[t].thread_id]) = 2
        /\ threads[disp[t].thread_id][2].content = "done"

\* The bytes of the chunks of a chunked body up to its zero-size chunk, and
\* whether the body has such an end.
RECURSIVE ChunkedLength(_)
ChunkedLength(chunks) ==
    IF chunks = << >> \/ Head(chunks).value = 0 THEN 0
    ELSE Head(chunks).value + ChunkedLength(Tail(chunks))
WellFormed(chunks) ==
    \E i \in 1..Len(chunks) :
        /\ chunks[i] = Number(0)
        /\ \A j \in 1..(i - 1) : chunks[j].kind = "int" /\ chunks[j].value > 0

\* C21: no body longer than 1 MiB (1,048,576 bytes) is read in and accepted,
\* for every integer Content-Length and every sequence of chunk sizes: a
\* body of exactly 1 MiB is accepted, one of 1 MiB + 1 is answered with 413.
C21_BodyAtMostOneMiB ==
    (call.fn = "read_raw_body" /\ call.done)
    => LET a == call.args
           accepted == call.result.line = 0
       IN  /\ accepted => call.result.length <= 1048576
           /\ (~ a.chunked /\ a.content_length = Number(1048576)
                /\ a.sent = 1048576)
                => accepted /\ call.result.length = 1048576
           /\ (~ a.chunked /\ a.content_length = Number(1048577))
                => call.result.line = 614
           /\ (a.chunked /\ WellFormed(a.chunks)
                /\ ChunkedLength(a.chunks) = 1048576)
                => accepted /\ call.result.length = 1048576
           /\ (a.chunked /\ WellFormed(a.chunks)
                /\ ChunkedLength(a.chunks) > 1048576)
                => call.result.line = 647

\* The delivery carries the signature GitHub computes: sha256= and the HMAC
\* of the raw body under the webhook secret of the server.
RightlySigned(a) ==
    /\ a.github_secret # "None"
    /\ a.signature =
          GithubSignature("sha256=", a.github_secret,
                          IF a.content_length.value # 0 THEN a.payload ELSE "")

C23_AskLeavesThreadsAndTasks ==
    [][(\E a \in AskIds : ask'[a] # ask[a])
         => threads' = threads /\ TASKS' = TASKS]_vars

\* An /ask request has been answered after its upstream call while a
\* dispatched task is in the registry and its edi entry in the thread file.
C23_Witness ==
    \E a \in AskIds :
        /\ ask[a].pc = "done"
        /\ ask[a].resp.code = 504
        /\ ask[a].upstream # << >>
        /\ TASKS # << >>
        /\ \E th \in ThreadIds : threads[th] # << >>

\* C24: an authenticated /ask without threadId makes exactly one agent-hook
\* call, followed only by sessions_history polls and never by
\* sessions_send; one with a valid threadId makes exactly one sessions_send
\* call, no agent-hook call and no history poll.
C24_UpstreamCallsOfAsk ==
    \A a \in AskIds :
        LET u == ask[a].upstream
            answered == ask[a].pc = "done"
        IN  /\ ask[a].pc \in {"idle", "hook", "send"} => u = << >>
            /\ ask[a].pc = "poll" => ask[a].is_new_thread
            /\ (ask[a].is_new_thread /\ ask[a].pc \in {"poll", "done"}) =>
                  /\ Len(u) >= 1
                  /\ u[1] = "hooks/agent"
                  /\ \A i \in 2..Len(u) : u[i] = "sessions_history"
            /\ (answered /\ ask[a].resp.line \in {880, 891, 897}
                 /\ ~ ask[a].is_new_thread) =>
                  u = << "sessions_send" >>
            /\ (answered /\ ask[a].resp.line \notin {861, 880, 891, 897}) =>
                  u = << >>

\* A new thread has been answered after the hook and a history poll, and a
\* continued thread after its sessions_send; the model has one /ask request
\* at its smallest bound, so the witness is the new thread.
C24_Witness ==
    \E a \in AskIds :
        /\ ask[a].pc = "done"
        /\ ask[a].is_new_thread
        /\ ask[a].resp.code = 200
        /\ ask[a].upstream = << "hooks/agent", "sessions_history" >>

\* C22: the callback is posted at most once per task, only when the
\* dispatch supplied a callback with a non-empty sessionKey, and only after
\* the agent entry has been written and the terminal status recorded;
\* whether the post succeeds or fails, the status and the exitCode of the
\* task and the thread entries stay as they were.
C22_CallbackOnceAfterCompletion ==
    [][\A t \in TaskIds :
         sup'[t].posted # sup[t].posted =>
            /\ sup[t].posted = 0 /\ sup'[t].posted = 1
            /\ disp[t].callback.given /\ disp[t].callback.sessionKey # ""
            /\ AgentEntriesOf(t) # {}
            /\ sup[t].status \in TerminalStatus
            /\ TASKS[t].exitCode = sup[t].exit_code
            /\ TASKS'[t].status = TASKS[t].status
            /\ TASKS'[t].exitCode = TASKS[t].exitCode
            /\ threads' = threads]_vars

\* The callback of a completed task has been posted and was not delivered;
\* the task is still completed.
C22_Witness ==
    \E t \in TaskIds :
        /\ sup[t].pc = "done"
        /\ sup[t].posted = 1 /\ ~ sup[t].delivered
        /\ TASKS[t].status = "completed"
        /\ AgentEntriesOf(t) # {}

\* C33: each accepted dispatch writes its edi entry with a turn strictly
\* greater than every turn already in the thread file at the moment of the
\* write, also when two dispatches to the same thread run concurrently.
C33_EdiTurnAboveEveryTurn ==
    [][\A th \in ThreadIds :
         (/\ Len(threads'[th]) = Len(threads[th]) + 1
          /\ threads'[th][Len(threads'[th])].role = EDI)
         => \A i \in 1..Len(threads[th]) :
               threads[th][i].turn.int < threads'[th][Len(threads'[th])].turn.int]_vars

\* C35: the cancel_requested flag of a task is set exactly when its status
\* is canceling or canceled; the flag is set together with the status
\* canceling, no task goes from running directly to canceled, and no task
\* in canceling becomes completed or failed.
C35_CancelFlagMatchesStatus ==
    /\ [](\A t \in DOMAIN TASKS :
            TASKS[t].cancel_requested <=> TASKS[t].status \in {"canceling", "canceled"})
    /\ [][\A t \in DOMAIN TASKS :
            /\ (~ TASKS[t].cancel_requested /\ TASKS'[t].cancel_requested)
                 => TASKS'[t].status = "canceling"
            /\ ~ (TASKS[t].status = "running" /\ TASKS'[t].status = "canceled")
            /\ ~ (TASKS[t].status = "canceling"
                  /\ TASKS'[t].status \in {"completed", "failed"})]_vars

\* A task is canceled after it was canceling, its flag set.
C35_Witness ==
    \E t \in DOMAIN TASKS :
        /\ TASKS[t].status = "canceled"
        /\ TASKS[t].cancel_requested
        /\ sup[t].pc = "done"

\* C36: whenever a /dispatch response reports the status completed, failed
\* or canceled, the agent entry of the task is in the thread file when the
\* response is sent.
C36_TerminalResponseAfterAgentEntry ==
    \A r \in DispatchIds :
        (disp[r].pc = "done" /\ disp[r].resp.status \in TerminalStatus)
        => AgentEntriesOf(r) # {}
\* C37: a /dispatch answered 400, for whichever validation reason, has
\* written no thread entry, created no task record and spawned no process:
\* the answering step changes neither a thread file, nor the registry, nor a
\* child, nor a supervisor, and nothing of the request exists afterwards.
Refused(r) == disp[r].pc = "done" /\ disp[r].resp.code = 400

C37_RefusedDispatchLeavesNoTrace ==
    /\ [](\A r \in DispatchIds :
            Refused(r) => /\ EntriesOf(r) = {}
                          /\ r \notin DOMAIN TASKS
                          /\ child[r].state = "none"
                          /\ sup[r].pc = "idle")
    /\ [][\A r \in DispatchIds :
            (disp[r].pc = "idle" /\ disp'[r].pc = "done" /\ disp'[r].resp.code = 400)
            => UNCHANGED << threads, TASKS, child, sup >>]_vars

C37_Witness ==
    \E r \in DispatchIds : Refused(r) /\ disp[r].resp.line = 952

\* C31: thread files are append-only.  Every write adds exactly one whole
\* line at the end of its file, the earlier content of a file is a prefix of
\* its later content, and a load that runs beside the appends returns whole
\* entries only, a prefix of the entries in the order they were written.
IsPrefix(s, t) == Len(s) <= Len(t) /\ SubSeq(t, 1, Len(s)) = s

C31_ThreadFilesAppendOnly ==
    /\ [][\A th \in ThreadIds :
            \/ threads'[th] = threads[th]
            \/ /\ Len(threads'[th]) = Len(threads[th]) + 1
               /\ IsPrefix(threads[th], threads'[th])
               /\ IsPrefix(tail[th], << threads'[th][Len(threads'[th])] >>)
               /\ tail'[th] = << >>]_vars
    /\ [](\A w \in Workers :
            thr[w].loaded => IsPrefix(thr[w].entries, threads[LockThread]))

C31_Witness ==
    /\ thr["thread"].loaded
    /\ Len(thr["thread"].entries) = 1
    /\ Len(threads[LockThread]) = 2

\* C34: no thread holds THREAD_LOCK and TASKS_LOCK at once, and a thread
\* that waits for the child, sleeps in the early-check window or calls the
\* gateway holds neither; so a thread that waits for a lock waits for a
\* holder that can run, and while a thread is unfinished some thread can step.
Blocked(w) == At(w, "acquire") /\ locks[Here(w).lock] # NoWorker

C34_LocksNeverNestedNorHeldWhileWaiting ==
    /\ \A w \in Workers : Cardinality(Holds(w)) <= 1
    /\ \A w \in Workers :
         (At(w, "wait") \/ At(w, "sleep") \/ At(w, "upstream")) => Holds(w) = {}
    /\ \A w \in Workers :
         Blocked(w) => /\ locks[Here(w).lock] # w
                       /\ ~ Blocked(locks[Here(w).lock])
                       /\ ~ At(locks[Here(w).lock], "wait")
                       /\ ENABLED Run(locks[Here(w).lock])
    /\ (\E w \in Workers : thr[w].pc > 0 /\ ~ Finished(w)) => ENABLED LockNext

C34_Witness ==
    /\ At("run_dispatch_task", "wait")
    /\ \E w \in Workers : Blocked(w)
    /\ \E w \in Workers : At(w, "sleep")

\* C32: an accepted /dispatch is always answered, after no wait but the one
\* sleep of the early-check interval, whether or not the child ever exits:
\* the handler never waits for the child, and every lock it needs is given
\* back by a holder that can run.
C32_AcceptedDispatchIsAnswered ==
    /\ (~ Finished("dispatch")) ~> Finished("dispatch")
    /\ [](Finished("dispatch") =>
            thr["dispatch"].slept <= DISPATCH_EARLY_CHECK_SECONDS)

C32_Witness ==
    /\ Finished("dispatch")
    /\ At("run_dispatch_task", "wait")
    /\ thr["dispatch"].slept = DISPATCH_EARLY_CHECK_SECONDS

\* C38: poll_for_response always terminates.  It makes no history call
\* before the initial delay has passed nor once timeoutSeconds have elapsed,
\* it returns at the first history call that carries a reply, it returns no
\* reply (504) only once timeoutSeconds have elapsed, and an iteration that
\* does not return consumes time.
Polling(a) == ask[a].pc = "poll"

====
